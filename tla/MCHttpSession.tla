---------------------------- MODULE MCHttpSession ----------------------------
(* Requests for TLC: every method, a URI that is stored and one that is    *)
(* listed, every kind of credentials, every flaw in a field.               *)
EXTENDS HttpSession

Ask(method, uri, auth) ==
    [method |-> method, uri |-> uri, size |-> 0, expect |-> FALSE, auth |-> auth, flaw |-> "none"]

Upload(size, expect, auth) ==
    [method |-> "PUT", uri |-> "/a", size |-> size, expect |-> expect, auth |-> auth, flaw |-> "none"]

Flawed(r, flaw) == [r EXCEPT !.flaw = flaw]

(* A client that announces its bodies. *)
Announced ==
    {Ask("GET", "/", "right"), Ask("GET", "/a", "none"), Ask("DELETE", "/a", "anonymous"),
     Ask("DELETE", "/a", "wrong"), Ask("HEAD", "/", "right"),
     Ask("GET", "/a", "unreadable"), Ask("DELETE", "/a", "nameonly"),
     Upload(0, FALSE, "right"), Upload(2, TRUE, "right"), Upload(1, TRUE, "wrong"),
     Flawed(Ask("HEAD", "/", "none"), "colonless"), Flawed(Ask("GET", "/", "wrong"), "colonless"),
     Flawed(Upload(0, FALSE, "wrong"), "length"), Flawed(Upload(1, TRUE, "right"), "length")}

(* A client that sends a small file with its header, as curl does. *)
Unannounced == {Upload(1, FALSE, "right")}
=============================================================================
