-------------------------- MODULE GenerationProperties --------------------------
(* What the registry and the completions promise. *)
EXTENDS Generation

TypeOK ==
  /\ limit \in Nat \ {0}
  /\ active \in [Conversations -> Requests \cup {None}]
  /\ {cancelled, kill, strict, gone} \subseteq [Requests -> BOOLEAN]
  /\ ask \in Asks
  /\ pc \in [Requests -> Working \cup {"new", "refused", "dropped", "over"}]
  /\ result \in [Requests -> {"none", "live", "fixed", "value", "error"}]
  /\ provider \in [Requests -> Models \cup {None}]
  /\ broken \subseteq Requests
  /\ runtime \in Models \cup {None}
  /\ exists \subseteq Conversations
  /\ messages \in [Conversations -> Seq([of: Requests, role: {"user", "assistant"},
                                         by: Models \cup {None}, model: Models \cup {None}])]

\* Chat work in flight, streamed responses included, holds the slot of its
\* conversation, and no more slots are held than the limit: at no await does a
\* second response of the conversation run, or one too many of the program.
WorkHoldsSlot ==
  /\ \A r \in Requests : pc[r] \in Working => active[ask[r].conv] = r
  /\ Cardinality(Held) <= limit

\* An answer directly follows the question it answers, so a history sent to
\* the model never shows the answer to another question of the conversation.
AnswerFollowsQuestion ==
  \A c \in Conversations : \A i \in 1..Len(messages[c]) :
    messages[c][i].role = "assistant" =>
      i > 1 /\ messages[c][i-1] = Question(messages[c][i].of)

\* A stored answer names the model that wrote it, whatever was loaded, replaced
\* or unloaded between the request's look at the runtime and its last part.
AnswerFromItsModel ==
  \A c \in Conversations : \A i \in 1..Len(messages[c]) :
    LET m == messages[c][i] IN m.role = "assistant" => m.by = m.model

\* A conversation that was deleted while its response was produced stays empty.
DeletedStaysEmpty == \A c \in Conversations \ exists : messages[c] = <<>>

Answered(r) == \E i \in 1..Len(messages[ask[r].conv]) :
  messages[ask[r].conv][i].of = r /\ messages[ask[r].conv][i].role = "assistant"

\* A response that was stopped before its answer is stored is never stored,
\* even when stop comes between the end of the work and the first part sent.
StopIsFinal == [][\A r \in Requests : cancelled[r] /\ ~Answered(r) => ~Answered(r)']_vars

\* Every slot is given back, stopped, failed or abandoned, unless the server
\* drops the body of a stream before it is entered.
SlotReturned == \A r \in Requests :
  active[ask[r].conv] = r ~> active[ask[r].conv] # r \/ pc[r] = "dropped"
===============================================================================
