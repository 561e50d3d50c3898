------------------------------ MODULE Generation -------------------------------
(***************************************************************************)
(* Chat completions and the registry that bounds them                      *)
(* (backend/chat/generation.py, chat_completion and _chat_completion in    *)
(* backend/chat/routes.py).                                                *)
(*                                                                         *)
(* A request takes the slot of its conversation, runs its work in a task,  *)
(* and returns a value or a stream; a stream's slot is given back by the   *)
(* generator that wraps its body.  The code of a request between two       *)
(* awaits is one step.  Requests, the stop route, a client that leaves,    *)
(* the deletion of a conversation and a change of the chat runtime         *)
(* interleave at every await.                                              *)
(***************************************************************************)
EXTENDS Naturals, Sequences, FiniteSets

CONSTANTS
  Requests,       \* chat completion requests
  Conversations,
  Owner,          \* Owner[c]: the user who owns conversation c
  Users, Models,  \* users, chat models
  Asks,           \* what the requests may ask: Asks is a set of functions
  Configured,     \* values of max_concurrent_generations
  None            \* no value

ASSUME ConfiguredAssumption == Configured \subseteq Nat
ASSUME AsksAssumption ==
  Asks \subseteq
    [Requests -> [conv: Conversations, user: Users, model: Models, stream: BOOLEAN]]
ASSUME OwnerAssumption == Owner \in [Conversations -> Users]
ASSUME NoneAssumption == None \notin Requests \cup Models

VARIABLES
  limit,       \* registry.limit
  active,      \* registry.active: the request that holds a conversation's slot
  cancelled,   \* Generation.cancelled
  kill,        \* the generation's current task was cancelled, not yet delivered
  ask,         \* what a request asks
  pc,          \* where it is
  result,      \* how its task ended: "live" or "fixed" stream, "value", "error"
  strict,      \* it reads responseMode knowledge_only
  provider,    \* the model of the chat provider it obtained
  broken,      \* requests whose provider was shut down since
  gone,        \* its client has disconnected
  runtime,     \* the loaded chat model
  exists,      \* conversations in the database
  messages     \* messages[c]: the stored messages of conversation c

vars == <<limit, active, cancelled, kill, ask, pc, result, strict, provider, broken,
          gone, runtime, exists, messages>>

InTask == {"task", "retrieve", "load", "collect"}   \* _chat_completion is running
InBody == {"stream", "final", "closing"}            \* owned_stream is running
Working == InTask \cup {"ended", "reply"} \cup InBody

Question(r) == [of |-> r, role |-> "user", by |-> None, model |-> None]
Answer(r) == [of |-> r, role |-> "assistant", by |-> provider[r], model |-> ask[r].model]
Refusal(r) == [of |-> r, role |-> "assistant", by |-> None, model |-> None]

Init ==
  /\ limit \in {IF n < 1 THEN 1 ELSE n : n \in Configured}
  /\ active = [c \in Conversations |-> None]
  /\ cancelled = [r \in Requests |-> FALSE]
  /\ kill = [r \in Requests |-> FALSE]
  /\ ask \in Asks
  /\ pc = [r \in Requests |-> "new"]
  /\ result = [r \in Requests |-> "none"]
  /\ strict = [r \in Requests |-> FALSE]
  /\ provider = [r \in Requests |-> None]
  /\ broken = {}
  /\ gone = [r \in Requests |-> FALSE]
  /\ runtime = None
  /\ exists = Conversations
  /\ messages = [c \in Conversations |-> <<>>]

Held == {c \in Conversations : active[c] # None}

-------------------------------------------------------------------------------
(* The registry *)

\* Mutant: only the conversation is looked at.
MayBeginUnbounded(c) == active[c] = None

\* Mutant: only the number of responses is looked at.
MayBeginTwice(c) == Cardinality(Held) < limit

\* begin: refused while the conversation has a response or all slots are taken.
MayBegin(c) == active[c] = None /\ Cardinality(Held) < limit

\* The route up to its await of the new task.
Begin(r) ==
  /\ pc[r] = "new"
  /\ IF MayBegin(ask[r].conv)
       THEN /\ active' = [active EXCEPT ![ask[r].conv] = r]
            /\ pc' = [pc EXCEPT ![r] = "task"]
       ELSE /\ pc' = [pc EXCEPT ![r] = "refused"]
            /\ UNCHANGED active
  /\ UNCHANGED <<limit, cancelled, kill, ask, result, strict, provider, broken, gone, runtime, exists, messages>>

\* Mutant: the slot of a stopped response is not given back.
FinishUnlessStopped(r) ==
  /\ active' = IF cancelled[r] THEN active ELSE [active EXCEPT ![ask[r].conv] = None]
  /\ pc' = [pc EXCEPT ![r] = "over"]

\* finish: whoever holds the conversation's slot loses it.
Finish(r) ==
  /\ active' = [active EXCEPT ![ask[r].conv] = None]
  /\ pc' = [pc EXCEPT ![r] = "over"]

\* stop: flags the generation, and cancels its task unless that is done, which
\* it is from the end of the work to the start of a stream's body.
Stop(u, c) ==
  LET r == active[c] IN
  /\ r # None
  /\ ask[r].user = u
  /\ cancelled' = [cancelled EXCEPT ![r] = TRUE]
  /\ kill' = [kill EXCEPT ![r] = @ \/ pc[r] \in InTask \cup InBody]
  /\ UNCHANGED <<limit, active, ask, pc, result, strict, provider, broken, gone, runtime, exists, messages>>

-------------------------------------------------------------------------------
(* The work of a request *)

\* The task ends with the messages ms in the conversation.
End(r, outcome, ms) ==
  /\ pc' = [pc EXCEPT ![r] = "ended"]
  /\ result' = [result EXCEPT ![r] = outcome]
  /\ messages' = [messages EXCEPT ![ask[r].conv] = ms]

\* Mutant: the messages' foreign key is not enforced.
StoreAlways(r, m, ms, outcome) == End(r, outcome, Append(ms, m))

\* A message is stored only while its conversation exists (its foreign key).
Store(r, m, ms, outcome) ==
  IF ask[r].conv \in exists THEN End(r, outcome, Append(ms, m)) ELSE End(r, "error", ms)

StreamOr(r, kind) == IF ask[r].stream THEN kind ELSE "value"

\* With the provider at hand, a strict or plain answer is collected first; a
\* streamed one is left to the body of the response.
Answering(r, p, ms) ==
  /\ provider' = [provider EXCEPT ![r] = p]
  /\ IF strict'[r] \/ ~ask[r].stream
       THEN /\ pc' = [pc EXCEPT ![r] = "collect"]
            /\ messages' = [messages EXCEPT ![ask[r].conv] = ms]
            /\ UNCHANGED result
       ELSE End(r, "live", ms)

\* Mutant: any chat provider will do.
LoadNeededOnce(r) == runtime = None

LoadNeeded(r) == runtime # ask[r].model

\* What follows retrieval without an await: a strict request without sources
\* stores its refusal, any other goes to the chat model.
Proceed(r, sourced, ms) ==
  IF strict'[r] /\ ~sourced
    THEN /\ Store(r, Refusal(r), ms, StreamOr(r, "fixed"))
         /\ UNCHANGED provider
    ELSE IF LoadNeeded(r)
      THEN /\ pc' = [pc EXCEPT ![r] = "load"]
           /\ messages' = [messages EXCEPT ![ask[r].conv] = ms]
           /\ UNCHANGED <<result, provider>>
      ELSE Answering(r, runtime, ms)

Owns(r) == ask[r].conv \in exists /\ Owner[ask[r].conv] = ask[r].user

\* The checks, the question and the settings.  The model may be unusable, and
\* the selected collection too, which is noticed after the question is stored;
\* model_only requests and those without a collection skip retrieval.
Prepare(r) ==
  LET c == ask[r].conv
      ms == Append(messages[c], Question(r)) IN
  /\ pc[r] = "task" /\ ~kill[r]
  /\ \/ /\ End(r, "error", messages[c])
        /\ UNCHANGED <<strict, provider>>
     \/ /\ Owns(r)
        /\ \E mode \in {"knowledge_only", "knowledge_preferred", "model_only"} :
             /\ strict' = [strict EXCEPT ![r] = mode = "knowledge_only"]
             /\ \/ /\ mode # "model_only"
                   /\ \/ End(r, "error", ms)
                      \/ /\ pc' = [pc EXCEPT ![r] = "retrieve"]
                         /\ messages' = [messages EXCEPT ![c] = ms]
                         /\ UNCHANGED result
                   /\ UNCHANGED provider
                \/ Proceed(r, FALSE, ms)
  /\ UNCHANGED <<limit, active, cancelled, kill, ask, broken, gone, runtime, exists>>

\* The searches of all collections are done.
Retrieved(r) ==
  /\ pc[r] = "retrieve" /\ ~kill[r]
  /\ UNCHANGED strict
  /\ \E sourced \in BOOLEAN : Proceed(r, sourced, messages[ask[r].conv])
  /\ UNCHANGED <<limit, active, cancelled, kill, ask, broken, gone, runtime, exists>>

\* The chat runtime becomes m; providers of another model are shut down.
Replace(m, r) ==
  /\ runtime' = m
  /\ broken' = IF m = runtime THEN broken
               ELSE {q \in Requests : q # r /\ (q \in broken \/ provider[q] # None)}

\* load_model has returned: the provider it left is taken in the same step.
Loaded(r) ==
  LET c == ask[r].conv IN
  /\ pc[r] = "load" /\ ~kill[r]
  /\ Replace(ask[r].model, r)
  /\ provider' = [provider EXCEPT ![r] = ask[r].model]
  /\ IF strict[r] \/ ~ask[r].stream
       THEN pc' = [pc EXCEPT ![r] = "collect"] /\ UNCHANGED <<result, messages>>
       ELSE End(r, "live", messages[c])
  /\ UNCHANGED <<limit, active, cancelled, kill, ask, strict, gone, exists>>

\* The whole answer has come; a strict one that is empty becomes a refusal.
Collected(r) ==
  /\ pc[r] = "collect" /\ ~kill[r] /\ r \notin broken
  /\ \E m \in {Answer(r)} \cup (IF strict[r] THEN {Refusal(r)} ELSE {}) :
       Store(r, m, messages[ask[r].conv], StreamOr(r, "fixed"))
  /\ UNCHANGED <<limit, active, cancelled, kill, ask, strict, provider, broken, gone, runtime, exists>>

\* An await raises: retrieval, loading or the model's answer.
WorkFails(r) ==
  /\ pc[r] \in InTask \ {"task"} /\ ~kill[r]
  /\ End(r, "error", messages[ask[r].conv])
  /\ UNCHANGED <<limit, active, cancelled, kill, ask, strict, provider, broken, gone, runtime, exists>>

\* The cancellation reaches the task at its await, or before its first step.
WorkCancelled(r) ==
  /\ pc[r] \in InTask /\ kill[r]
  /\ End(r, "error", messages[ask[r].conv])
  /\ UNCHANGED <<limit, active, cancelled, kill, ask, strict, provider, broken, gone, runtime, exists>>

\* The route resumes: a stream keeps the slot, everything else gives it back.
Streamed(r) == result[r] \in {"live", "fixed"}

Resume(r) ==
  /\ pc[r] = "ended"
  /\ IF Streamed(r)
       THEN pc' = [pc EXCEPT ![r] = "reply"] /\ UNCHANGED active
       ELSE Finish(r)
  /\ UNCHANGED <<limit, cancelled, kill, ask, result, strict, provider, broken, gone, runtime, exists, messages>>

-------------------------------------------------------------------------------
(* The body of a streamed response *)

\* Mutant: the flag is not looked at, only the task is cancelled.
WithdrawnNever(r) == FALSE

Withdrawn(r) == cancelled[r]

\* owned_stream is entered: its task is the one to cancel from now on.
StartBody(r) ==
  /\ pc[r] = "reply"
  /\ IF Withdrawn(r) THEN Finish(r) ELSE pc' = [pc EXCEPT ![r] = "stream"] /\ UNCHANGED active
  /\ UNCHANGED <<limit, cancelled, kill, ask, result, strict, provider, broken, gone, runtime, exists, messages>>

\* External: the server is told that the client left before it asks for the
\* first part of the body; the generator is never entered.
BodyDropped(r) ==
  /\ pc[r] = "reply" /\ gone[r]
  /\ pc' = [pc EXCEPT ![r] = "dropped"]
  /\ UNCHANGED <<limit, active, cancelled, kill, ask, result, strict, provider, broken, gone, runtime, exists, messages>>

\* The next part is there: owned_stream looks at the flag and the client, then
\* passes it on.  Parts before the last change nothing.
LastPart(r) ==
  /\ pc[r] = "stream" /\ ~kill[r]
  /\ result[r] = "live" => r \notin broken
  /\ IF Withdrawn(r) \/ gone[r]
       THEN Finish(r)
       ELSE /\ pc' = [pc EXCEPT ![r] = IF result[r] = "live" THEN "final" ELSE "closing"]
            /\ UNCHANGED active
  /\ UNCHANGED <<limit, cancelled, kill, ask, result, strict, provider, broken, gone, runtime, exists, messages>>

\* The model's stream breaks: an error part, then the end marker.
Interrupted(r) ==
  /\ pc[r] = "stream" /\ ~kill[r] /\ result[r] = "live"
  /\ IF Withdrawn(r) \/ gone[r]
       THEN Finish(r)
       ELSE pc' = [pc EXCEPT ![r] = "closing"] /\ UNCHANGED active
  /\ UNCHANGED <<limit, cancelled, kill, ask, result, strict, provider, broken, gone, runtime, exists, messages>>

\* The last part was sent and the generator is resumed: it stores the answer,
\* unless it is empty, and yields the end marker.
Complete(r) ==
  LET c == ask[r].conv IN
  /\ pc[r] = "final" /\ ~kill[r]
  /\ \E text \in BOOLEAN :
       /\ messages' = IF text /\ c \in exists
                        THEN [messages EXCEPT ![c] = Append(@, Answer(r))] ELSE messages
       /\ IF (text /\ c \notin exists) \/ Withdrawn(r) \/ gone[r]
            THEN Finish(r)
            ELSE pc' = [pc EXCEPT ![r] = "closing"] /\ UNCHANGED active
  /\ UNCHANGED <<limit, cancelled, kill, ask, result, strict, provider, broken, gone, runtime, exists>>

Close(r) ==
  /\ pc[r] = "closing" /\ ~kill[r]
  /\ Finish(r)
  /\ UNCHANGED <<limit, cancelled, kill, ask, result, strict, provider, broken, gone, runtime, exists, messages>>

\* The body is cancelled by stop, or by the server when the client leaves: the
\* model's stream is closed before its answer is stored.
BodyCancelled(r) ==
  /\ pc[r] \in InBody
  /\ kill[r] \/ gone[r]
  /\ Finish(r)
  /\ UNCHANGED <<limit, cancelled, kill, ask, result, strict, provider, broken, gone, runtime, exists, messages>>

-------------------------------------------------------------------------------
(* Everything else *)

\* A client that left is noticed while its stream is due or under way.
ClientLeaves(r) ==
  /\ pc[r] \in {"reply"} \cup InBody /\ ~gone[r]
  /\ gone' = [gone EXCEPT ![r] = TRUE]
  /\ UNCHANGED <<limit, active, cancelled, kill, ask, pc, result, strict, provider, broken, runtime, exists, messages>>

\* delete_conversation: the messages go with it.
DeleteConversation(c) ==
  /\ c \in exists
  /\ exists' = exists \ {c}
  /\ messages' = [messages EXCEPT ![c] = <<>>]
  /\ UNCHANGED <<limit, active, cancelled, kill, ask, pc, result, strict, provider, broken, gone, runtime>>

\* External: the model routes load another chat model or unload it; neither
\* waits for the responses in flight.
RuntimeChanges(m) ==
  /\ m # runtime
  /\ Replace(m, None)
  /\ UNCHANGED <<limit, active, cancelled, kill, ask, pc, result, strict, provider, gone, exists, messages>>

Step(r) ==
  \/ Prepare(r) \/ Retrieved(r) \/ Loaded(r) \/ Collected(r) \/ WorkFails(r) \/ WorkCancelled(r)
  \/ Resume(r) \/ StartBody(r) \/ BodyDropped(r) \/ LastPart(r) \/ Interrupted(r)
  \/ Complete(r) \/ Close(r) \/ BodyCancelled(r)

Next ==
  \/ \E r \in Requests : Begin(r) \/ Step(r) \/ ClientLeaves(r)
  \/ \E u \in Users, c \in Conversations : Stop(u, c)
  \/ \E c \in Conversations : DeleteConversation(c)
  \/ \E m \in Models \cup {None} : RuntimeChanges(m)

Spec == Init /\ [][Next]_vars

\* A request that waits is resumed: its awaits end, by their result or by the
\* time limit of the client that talks to the runtime.
FairSpec == Spec /\ \A r \in Requests : WF_vars(Step(r))
===============================================================================
