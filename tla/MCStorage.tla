------------------------------ MODULE MCStorage ------------------------------
(* One session of each protocol and one administrator. *)
EXTENDS Storage

SomeKeys == {<<"/", "a">>, <<"/", "d", "/", "a">>}

SomeDirectories == {Root, <<"/", "d", "/">>}

Credentials(name, password) == [username |-> name, password |-> password]

(* Each operation on one key or the other, with the right password, with   *)
(* another one and without need of one.                                    *)
SomeHttpRequests ==
    {Request("GET", Root, Credentials("anonymous", "q")),
     Request("GET", <<"/", "a">>, Credentials("alice", "p")),
     Request("PUT", <<"/", "a">>, Credentials("alice", "q")),
     Request("PUT", <<"/", "d", "/", "a">>, Credentials("alice", "p")),
     Request("DELETE", <<"/", "d", "/", "a">>, Credentials("alice", "p"))}

SomeFtpRequests ==
    {Request(c, x, NoUser) :
        <<c, x>> \in {<<"User", "alice">>, <<"Pass", "p">>, <<"Cwd", <<"d", "/">>>>,
                      <<"Stor", <<"a">>>>, <<"Retr", <<"a">>>>, <<"Dele", <<"/", "a">>>>,
                      <<"List", <<>>>>, <<"Quit", <<>>>>}}
=============================================================================
