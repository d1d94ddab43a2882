--------------------------------- MODULE Text ---------------------------------
(***************************************************************************)
(* The text functions of namespace utils.  A text is a sequence of strings: *)
(* words, numbers, and the characters that are looked for (the blank, the   *)
(* colon, CR, LF, those of base64).  A decoded text is a sequence of bytes. *)
(* An std::optional is a set of at most one element.                        *)
(***************************************************************************)
EXTENDS Integers, Sequences, SequencesExt

CRLF == <<"\r", "\n">>
Sp == " "
Blank == <<Sp>>
Colon == <<":">>

-----------------------------------------------------------------------------
(* utils *)

(* string::find: where a delimiter begins, at or after a position; npos    *)
(* lies behind the end of the text.                                        *)
npos(text) == Len(text) + 1

find(text, delimiter, from) ==
    Min({k \in from .. npos(text) - Len(delimiter) :
            SubSeq(text, k, k + Len(delimiter) - 1) = delimiter} \cup {npos(text)})

split(text, delimiter) ==
    LET tokens[start \in 1 .. Len(text) + 1] ==
          LET end == find(text, delimiter, start) IN
          IF end = npos(text) THEN <<SubSeq(text, start, Len(text))>>
          ELSE <<SubSeq(text, start, end - 1)>> \o tokens[end + Len(delimiter)]
    IN IF text = <<>> THEN <<>> ELSE tokens[1]

(* The words that are written in both cases. *)
Upper == [stor |-> "STOR", user |-> "USER"]

Lower == [k \in {"Content-Length", "CONTENT-LENGTH", "Authorization", "Expect", "Host", "Accept"} |->
            CASE k \in {"Content-Length", "CONTENT-LENGTH"} -> "content-length"
              [] k = "Authorization" -> "authorization"
              [] k = "Expect" -> "expect"
              [] k = "Host" -> "host"
              [] k = "Accept" -> "accept"]

Mapped(text, words) == [k \in 1 .. Len(text) |-> IF text[k] \in DOMAIN words THEN words[text[k]] ELSE text[k]]

toLowerCase(text) == Mapped(text, Lower)
toUpperCase(text) == Mapped(text, Upper)

(* The characters of base64, in the order of their values. *)
Alphabet ==
    <<"A", "B", "C", "D", "E", "F", "G", "H", "I", "J", "K", "L", "M", "N", "O", "P",
      "Q", "R", "S", "T", "U", "V", "W", "X", "Y", "Z", "a", "b", "c", "d", "e", "f",
      "g", "h", "i", "j", "k", "l", "m", "n", "o", "p", "q", "r", "s", "t", "u", "v",
      "w", "x", "y", "z", "0", "1", "2", "3", "4", "5", "6", "7", "8", "9", "+", "/">>

(* A character that is none of them has the value 64. *)
kDecodingTable(c) == Min({k \in 1 .. 64 : Alphabet[k] = c} \cup {65}) - 1

sextet(c) == IF c = "=" THEN 0 ELSE kDecodingTable(c)

(* The j-th byte of the triples that four characters each make. *)
byte(input, j) ==
    LET q == 4 * ((j - 1) \div 3)
        triple == sextet(input[q + 1]) * 2^18 + sextet(input[q + 2]) * 2^12
                    + sextet(input[q + 3]) * 2^6 + sextet(input[q + 4])
    IN (triple \div 2^(8 * (2 - ((j - 1) % 3)))) % 256

(* Mistake: the padding counts. *)
output_length_padded(input) == 3 * (Len(input) \div 4)

(* Every "=" among the last two characters takes a byte away.  The empty   *)
(* text is asked for them too: what lies before it is its length, 0.       *)
output_length(input) ==
    3 * (Len(input) \div 4)
      - Cardinality({k \in {Len(input) - 1, Len(input)} : k > 0 /\ input[k] = "="})

decode_base64(input) ==
    IF Len(input) % 4 # 0 THEN {}
    ELSE {[j \in 1 .. output_length(input) |-> byte(input, j)]}

=============================================================================
