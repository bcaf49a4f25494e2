------------------------------- MODULE Question -------------------------------
(****************************************************************************)
(* A stateless function of the code, asked once: a question is put in the   *)
(* initial state, one step of the module that models the function answers   *)
(* it, and the properties of that module speak of the pair.                 *)
(****************************************************************************)
EXTENDS Integers, Sequences, FiniteSetsExt

VARIABLES asked,   \* a record whose field topic names the function
          answer   \* << >> before the call, << result >> after it

questionVars == <<asked, answer>>

\* The call that answers the question with r.
Reply(topic, r) ==
    /\ asked.topic = topic /\ answer = <<>>
    /\ answer' = <<r>>
    /\ UNCHANGED asked

Answered(topic) == asked.topic = topic /\ answer # <<>>

\* Many answers hold the sum or the product of the entries of f over S.
Summed(f, S) == FoldSet(LAMBDA x, sum : f[x] + sum, 0, S)
Multiplied(f, S) == FoldSet(LAMBDA x, product : f[x] * product, 1, S)
================================================================================
