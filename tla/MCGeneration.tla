----------------------------- MODULE MCGeneration ------------------------------
(* Instances of Generation. *)
EXTENDS GenerationProperties, TLC

CONSTANTS r1, r2, c1, c2, u1, u2, m1, m2

MCOwner == c1 :> u1 @@ c2 :> u2

Ask(c, u, m, s) == [conv |-> c, user |-> u, model |-> m, stream |-> s]

\* Two requests for one conversation, with two models; two users with a
\* conversation each; a stranger who asks in another user's conversation.
MCAsks ==
  { r1 :> Ask(c1, u1, m1, TRUE) @@ r2 :> Ask(c1, u1, m2, FALSE),
    r1 :> Ask(c1, u1, m1, TRUE) @@ r2 :> Ask(c2, u2, m2, TRUE),
    r1 :> Ask(c1, u1, m1, TRUE) @@ r2 :> Ask(c1, u2, m1, TRUE) }
===============================================================================
