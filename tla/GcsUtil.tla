-------------------------------- MODULE GcsUtil --------------------------------
(***************************************************************************)
(* dummy_server/gcs_util.cc: the size that the name of an object stands     *)
(* for, and the chunk of data that every object is made of.                 *)
(*                                                                         *)
(* A name is a sequence of tokens.  Neighbouring tokens are neither both    *)
(* digits nor both letters, so a token is as long as the text allows.       *)
(***************************************************************************)
EXTENDS Integers, Sequences, SequencesExt

CONSTANTS
    K,        \* 1024
    IntMax    \* the largest int64_t

ASSUME GcsUtilAssumption == K \in Nat \ {0} /\ IntMax \in Nat

Letters == [letter : STRING, upper : BOOLEAN]

Tokens ==
    {token \in [kind : {"slash", "dot", "digits", "letters"}, number : Nat, text : Seq(Letters)] :
        token.kind = "letters" => token.text # << >>}

\* What an overflow leaves of n in two's complement, as the usual build has it.
Wrap(n) == ((n + IntMax + 1) % (2 * (IntMax + 1))) - (IntMax + 1)

FindLastOf(name, kind) == SelectLastInSeq(name, LAMBDA token : token.kind = kind)

\* Wrong on purpose: the extension begins at the first dot of the whole name.
BasenameToFirstDot(object) ==
    LET ext == SelectInSeq(object, LAMBDA token : token.kind = "dot")
        name == IF ext = 0 THEN object ELSE SubSeq(object, 1, ext - 1)
    IN SubSeq(name, FindLastOf(name, "slash") + 1, Len(name))

\* The directory goes first, so a dot in it is not taken for an extension.
GetBasenameWithoutExt(object) ==
    LET name == SubSeq(object, FindLastOf(object, "slash") + 1, Len(object))
        ext  == FindLastOf(name, "dot")
    IN IF ext = 0 THEN name ELSE SubSeq(name, 1, ext - 1)

AsciiStrToLower(word) == [i \in DOMAIN word |-> word[i].letter]

\* Whichever case the unit is written in; 0 if it is none.
GetUnitMultiplier(unit) ==
    LET s == AsciiStrToLower(unit)
    IN CASE s = << >>                            -> 1
         [] s \in {<<"k">>, <<"k", "i", "b">>} -> K
         [] s \in {<<"m">>, <<"m", "i", "b">>} -> K * K
         [] s \in {<<"g">>, <<"g", "i", "b">>} -> K * K * K
         [] s \in {<<"t">>, <<"t", "i", "b">>} -> K * K * K * K
         [] OTHER                               -> 0

\* Digits and then letters, if any, and nothing else.
MatchesSizeRegex(name) ==
    /\ Len(name) \in {1, 2}
    /\ name[1].kind = "digits"
    /\ Len(name) = 2 => name[2].kind = "letters"

\* The size, or a number below 0.  The bucket plays no part.
GetObjectSize(object) ==
    LET name == GetBasenameWithoutExt(object)
        num  == name[1].number
        multiplier == GetUnitMultiplier(IF Len(name) = 2 THEN name[2].text ELSE << >>)
    IN IF ~MatchesSizeRegex(name) \/ num > IntMax \/ multiplier = 0
       THEN -1
       ELSE Wrap(num * multiplier)

\* How many bytes the chunk has.
GetObjectDataChunk(size) == IF size <= 0 THEN 0 ELSE size
================================================================================
