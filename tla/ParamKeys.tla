------------------------------- MODULE ParamKeys -------------------------------
(***************************************************************************)
(* parseKey of param/nestedtypeassembler, which takes the key of a pair    *)
(* such as `items[][price]=x` apart, and what clients write for it to do   *)
(* so.                                                                     *)
(*                                                                         *)
(* A key is a sequence of tokens, where a token is "[", "]" or a run of    *)
(* other characters; the keys of maps are such sequences too.              *)
(***************************************************************************)
EXTENDS Integers, Sequences

Part(type, content) == [type |-> type, content |-> content]

(* A state machine over the characters of the key.  text is rawContent or  *)
(* mapContent, of which only one is ever in use.                           *)
KeyStart == [at |-> "raw", text |-> <<>>, parts |-> <<>>]

KeyStep(s, c) ==
    CASE s.at = "raw" /\ c = "[" ->
            [s EXCEPT !.at = "inMapOrArray", !.text = <<>>,
                      !.parts = IF s.text = <<>> THEN @ ELSE Append(@, Part("raw", s.text))]
      [] s.at = "inMapOrArray" /\ c = "]" ->
            [s EXCEPT !.at = "raw", !.parts = Append(@, Part("array", <<>>))]
      [] s.at = "inMap" /\ c = "]" ->
            [s EXCEPT !.at = "raw", !.text = <<>>, !.parts = Append(@, Part("map", s.text))]
      [] OTHER -> [s EXCEPT !.at = IF @ = "raw" THEN @ ELSE "inMap", !.text = Append(@, c)]

After(key) ==
    LET state[i \in 0..Len(key)] ==
            IF i = 0 THEN KeyStart ELSE KeyStep(state[i - 1], key[i])
    IN  state[Len(key)]

(* What is left over at the end counts only if the key has no bracket.     *)
ParseKey(key) ==
    LET end == After(key)
    IN  IF end.parts = <<>> /\ end.at = "raw" /\ end.text # <<>>
        THEN <<Part("raw", end.text)>> ELSE end.parts

----------------------------------------------------------------------------
(* What clients write: a name, then its parts in brackets.                 *)
Bracketed(text) == <<"[">> \o text \o <<"]">>

Extended(key, part) ==
    key \o (IF part.type = "raw" THEN part.content ELSE Bracketed(part.content))

KeyOf(parts) ==
    LET upTo[i \in 0..Len(parts)] ==
            IF i = 0 THEN <<>> ELSE Extended(upTo[i - 1], parts[i])
    IN  upTo[Len(parts)]
=============================================================================
