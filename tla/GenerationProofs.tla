---------------------------- MODULE GenerationProofs ----------------------------
(***************************************************************************)
(* Proofs about Generation, for every set of requests, conversations and   *)
(* models, every limit and without fairness.  Work holds the slot of its   *)
(* conversation, hence nobody else writes to the conversation, hence the   *)
(* last message there is the question of the response being produced.      *)
(***************************************************************************)
EXTENDS GenerationProperties, FiniteSetTheorems, TLAPS

\* A slot belongs to a request for that conversation, and a request that has not
\* begun was not stopped.
SlotsInv ==
  /\ \A r \in Requests : pc[r] \in Working => active[ask[r].conv] = r
  /\ \A c \in Conversations : active[c] # None =>
       ask[active[c]].conv = c /\ pc[active[c]] \in Working \cup {"dropped"}
  /\ \A r \in Requests : pc[r] = "new" => ~cancelled[r]

FewSlots == IsFiniteSet(Held) /\ Cardinality(Held) <= limit

\* What was stopped is cancelled at its next await.
StopReaches == \A r \in Requests : cancelled[r] /\ pc[r] \in InTask \cup InBody => kill[r]

\* A request that answers has a provider of the model it asked for.
RightProvider == \A r \in Requests :
  /\ pc[r] = "collect" \/ result[r] = "live" => provider[r] = ask[r].model
  /\ pc[r] = "final" => result[r] = "live"

\* The question of a request without an answer yet is the last message.
Asked(r) == \/ pc[r] \in {"retrieve", "load", "collect"}
            \/ pc[r] \in {"ended", "reply", "stream", "final"} /\ result[r] = "live"
QuestionLast == \A r \in Requests : Asked(r) /\ ask[r].conv \in exists =>
  LET ms == messages[ask[r].conv] IN ms # <<>> /\ ms[Len(ms)] = Question(r)

IInv ==
  /\ TypeOK /\ SlotsInv /\ FewSlots /\ StopReaches /\ RightProvider /\ QuestionLast
  /\ AnswerFollowsQuestion /\ AnswerFromItsModel /\ DeletedStaysEmpty

Messages == [of: Requests, role: {"user", "assistant"}, by: Models \cup {None}, model: Models \cup {None}]
Outcomes == {"none", "live", "fixed", "value", "error"}
Places == Working \cup {"new", "refused", "dropped", "over"}

-------------------------------------------------------------------------------

\* What a request asks.
LEMMA AskTypes ==
  ASSUME TypeOK, NEW r \in Requests
  PROVE  ask[r].conv \in Conversations /\ ask[r].user \in Users /\ ask[r].model \in Models
BY AsksAssumption DEF TypeOK

\* The messages a request may store.
LEMMA MessageTypes ==
  ASSUME TypeOK, NEW r \in Requests
  PROVE  Question(r) \in Messages /\ Answer(r) \in Messages /\ Refusal(r) \in Messages
BY AskTypes DEF TypeOK, Messages, Question, Answer, Refusal

\* The initial states: no response, no message.
LEMMA Initially == Init => IInv
<1> SUFFICES ASSUME Init PROVE IInv
  OBVIOUS
<1>1. TypeOK
  <2>1. limit \in Nat \ {0}
    BY ConfiguredAssumption DEF Init
  <2>2. messages \in [Conversations -> Seq(Messages)]
    BY DEF Init
  <2>3. /\ {cancelled, kill, strict, gone} \subseteq [Requests -> BOOLEAN]
        /\ active \in [Conversations -> Requests \cup {None}]
        /\ pc \in [Requests -> Places]
        /\ result \in [Requests -> Outcomes]
        /\ provider \in [Requests -> Models \cup {None}]
    BY DEF Init, Places, Outcomes
  <2> QED
    BY <2>1, <2>2, <2>3 DEF Init, TypeOK, Messages, Places, Outcomes
<1>2. SlotsInv /\ StopReaches /\ RightProvider /\ QuestionLast
  BY DEF Init, SlotsInv, StopReaches, RightProvider, QuestionLast, Asked, Working, InTask, InBody
<1>3. FewSlots
  <2>1. Held = {}
    BY DEF Init, Held
  <2>2. limit \in Nat
    BY ConfiguredAssumption DEF Init
  <2> QED
    BY <2>1, <2>2, FS_EmptySet DEF FewSlots
<1>4. AnswerFollowsQuestion /\ AnswerFromItsModel /\ DeletedStaysEmpty
  BY DEF Init, AnswerFollowsQuestion, AnswerFromItsModel, DeletedStaysEmpty
<1> QED
  BY <1>1, <1>2, <1>3, <1>4 DEF IInv

-------------------------------------------------------------------------------
(* What the work of a request does to the tables.                          *)

\* The ways in which a request goes on after its checks or its retrieval, with
\* the messages ms in its conversation.
Proceeded(r, ms) ==
  LET c == ask[r].conv IN
  \/ /\ pc' = [pc EXCEPT ![r] = "ended"] /\ provider' = provider /\ c \in exists
     /\ \E o \in {"fixed", "value"} : result' = [result EXCEPT ![r] = o]
     /\ messages' = [messages EXCEPT ![c] = Append(ms, Refusal(r))]
  \/ /\ pc' = [pc EXCEPT ![r] = "ended"] /\ provider' = provider /\ c \notin exists
     /\ result' = [result EXCEPT ![r] = "error"]
     /\ messages' = [messages EXCEPT ![c] = ms]
  \/ /\ pc' = [pc EXCEPT ![r] = "load"] /\ provider' = provider /\ result' = result
     /\ messages' = [messages EXCEPT ![c] = ms]
  \/ /\ pc' = [pc EXCEPT ![r] = "collect"] /\ result' = result
     /\ provider' = [provider EXCEPT ![r] = ask[r].model]
     /\ messages' = [messages EXCEPT ![c] = ms]
  \/ /\ pc' = [pc EXCEPT ![r] = "ended"] /\ result' = [result EXCEPT ![r] = "live"]
     /\ provider' = [provider EXCEPT ![r] = ask[r].model]
     /\ messages' = [messages EXCEPT ![c] = ms]

\* They are the cases of Proceed.
LEMMA ProceedCases ==
  ASSUME NEW r \in Requests, NEW sourced \in BOOLEAN, NEW ms, Proceed(r, sourced, ms)
  PROVE  Proceeded(r, ms)
<1>1. CASE strict'[r] /\ ~sourced /\ ask[r].conv \in exists
  BY <1>1 DEF Proceed, Store, End, StreamOr, Proceeded
<1>2. CASE strict'[r] /\ ~sourced /\ ask[r].conv \notin exists
  BY <1>2 DEF Proceed, Store, End, Proceeded
<1>3. CASE ~(strict'[r] /\ ~sourced) /\ LoadNeeded(r)
  BY <1>3 DEF Proceed, Proceeded
<1>4. CASE ~(strict'[r] /\ ~sourced) /\ ~LoadNeeded(r)
  BY <1>4, SMTT(30) DEF Proceed, LoadNeeded, Answering, End, Proceeded
<1> QED
  BY <1>1, <1>2, <1>3, <1>4

\* The same for the other steps of the work, by the request's place before.
Prepared(r) ==
  LET c == ask[r].conv
      ms == Append(messages[c], Question(r)) IN
  \/ /\ pc' = [pc EXCEPT ![r] = "ended"] /\ result' = [result EXCEPT ![r] = "error"]
     /\ messages' = [messages EXCEPT ![c] = messages[c]] /\ provider' = provider
  \/ /\ c \in exists
     /\ pc' = [pc EXCEPT ![r] = "ended"] /\ result' = [result EXCEPT ![r] = "error"]
     /\ messages' = [messages EXCEPT ![c] = ms] /\ provider' = provider
  \/ /\ c \in exists
     /\ pc' = [pc EXCEPT ![r] = "retrieve"] /\ result' = result
     /\ messages' = [messages EXCEPT ![c] = ms] /\ provider' = provider
  \/ c \in exists /\ Proceeded(r, ms)

\* They are the cases of Prepare.
LEMMA PrepareCases == ASSUME NEW r \in Requests, Prepare(r) PROVE Prepared(r)
<1> DEFINE ms == Append(messages[ask[r].conv], Question(r))
<1>1. \/ End(r, "error", messages[ask[r].conv]) /\ provider' = provider
      \/ /\ ask[r].conv \in exists
         /\ \/ End(r, "error", ms) /\ provider' = provider
            \/ /\ pc' = [pc EXCEPT ![r] = "retrieve"] /\ result' = result /\ provider' = provider
               /\ messages' = [messages EXCEPT ![ask[r].conv] = ms]
            \/ Proceed(r, FALSE, ms)
  BY DEF Prepare, Owns
<1>2. Proceed(r, FALSE, ms) => Proceeded(r, ms)
  BY ProceedCases
<1> HIDE DEF ms
<1> QED
  BY <1>1, <1>2 DEF Prepared, End, ms

-------------------------------------------------------------------------------
(* Types.                                                                  *)

\* Going on keeps the types.
LEMMA ProceededTypes ==
  ASSUME TypeOK, NEW r \in Requests, NEW ms \in Seq(Messages), Proceeded(r, ms)
  PROVE  /\ pc' \in [Requests -> Places] /\ result' \in [Requests -> Outcomes]
         /\ provider' \in [Requests -> Models \cup {None}]
         /\ messages' \in [Conversations -> Seq(Messages)]
<1>1. /\ pc \in [Requests -> Places] /\ result \in [Requests -> Outcomes]
      /\ provider \in [Requests -> Models \cup {None}]
      /\ messages \in [Conversations -> Seq(Messages)]
  BY DEF TypeOK, Messages, Places, Outcomes
<1>2. Append(ms, Refusal(r)) \in Seq(Messages)
  BY MessageTypes
<1>3. messages' \in [Conversations -> Seq(Messages)]
  BY <1>1, <1>2, AskTypes DEF Proceeded
<1>4. provider' \in [Requests -> Models \cup {None}]
  BY <1>1, AskTypes DEF Proceeded
<1>5. pc' \in [Requests -> Places] /\ result' \in [Requests -> Outcomes]
  BY <1>1 DEF Proceeded, Places, Outcomes, Working, InTask, InBody
<1> QED
  BY <1>3, <1>4, <1>5

\* Giving the slot back keeps the types.
LEMMA FinishTypes ==
  ASSUME TypeOK, NEW r \in Requests, Finish(r)
  PROVE  active' \in [Conversations -> Requests \cup {None}] /\ pc' \in [Requests -> Places]
BY AskTypes DEF TypeOK, Finish, Places, Working, InTask, InBody

\* Every step keeps the types.
LEMMA TypesKept == ASSUME TypeOK, [Next]_vars PROVE TypeOK'
<1> DEFINE T1 == limit \in Nat \ {0} /\ active \in [Conversations -> Requests \cup {None}]
           T2 == /\ cancelled \in [Requests -> BOOLEAN] /\ kill \in [Requests -> BOOLEAN]
                 /\ strict \in [Requests -> BOOLEAN] /\ gone \in [Requests -> BOOLEAN]
           T3 == /\ pc \in [Requests -> Places] /\ result \in [Requests -> Outcomes]
                 /\ provider \in [Requests -> Models \cup {None}]
           T4 == /\ ask \in Asks /\ broken \subseteq Requests /\ runtime \in Models \cup {None}
                 /\ exists \subseteq Conversations
           T5 == messages \in [Conversations -> Seq(Messages)]
<1>0. /\ T1 /\ T2 /\ T3 /\ T4 /\ T5
      /\ T1' /\ T2' /\ T3' /\ T4' /\ T5' => TypeOK'
  BY DEF TypeOK, Messages, Places, Outcomes
<1> USE DEF Places, Outcomes, Working, InTask, InBody
<1>1. ASSUME NEW r \in Requests, Begin(r) PROVE TypeOK'
  <2>1. T1' /\ T2'
    BY <1>1, <1>0, AskTypes, ZenonT(60) DEF Begin
  <2>2. T3' /\ T4'
    BY <1>1, <1>0, AskTypes DEF Begin
  <2>3. T5'
    BY <1>1, <1>0, AskTypes, MessageTypes DEF Begin
  <2> QED
    BY <1>0, <2>1, <2>2, <2>3
<1>2. ASSUME NEW u \in Users, NEW c \in Conversations, Stop(u, c) PROVE TypeOK'
  <2>1. T1' /\ T2'
    BY <1>2, <1>0, AskTypes DEF Stop
  <2>2. T3' /\ T4'
    BY <1>2, <1>0, AskTypes DEF Stop
  <2>3. T5'
    BY <1>2, <1>0, AskTypes, MessageTypes DEF Stop
  <2> QED
    BY <1>0, <2>1, <2>2, <2>3
<1>3. ASSUME NEW r \in Requests, ClientLeaves(r) PROVE TypeOK'
  <2>1. T1' /\ T2'
    BY <1>3, <1>0, AskTypes DEF ClientLeaves
  <2>2. T3' /\ T4'
    BY <1>3, <1>0, AskTypes DEF ClientLeaves
  <2>3. T5'
    BY <1>3, <1>0, AskTypes, MessageTypes DEF ClientLeaves
  <2> QED
    BY <1>0, <2>1, <2>2, <2>3
<1>4. ASSUME NEW c \in Conversations, DeleteConversation(c) PROVE TypeOK'
  <2>1. T1' /\ T2'
    BY <1>4, <1>0, AskTypes DEF DeleteConversation
  <2>2. T3' /\ T4'
    BY <1>4, <1>0, AskTypes DEF DeleteConversation
  <2>3. T5'
    BY <1>4, <1>0, AskTypes, MessageTypes DEF DeleteConversation
  <2> QED
    BY <1>0, <2>1, <2>2, <2>3
<1>5. ASSUME NEW m \in Models \cup {None}, RuntimeChanges(m) PROVE TypeOK'
  <2>1. T1' /\ T2'
    BY <1>5, <1>0, AskTypes DEF RuntimeChanges, Replace
  <2>2. T3' /\ T4'
    BY <1>5, <1>0, AskTypes DEF RuntimeChanges, Replace
  <2>3. T5'
    BY <1>5, <1>0, AskTypes, MessageTypes DEF RuntimeChanges, Replace
  <2> QED
    BY <1>0, <2>1, <2>2, <2>3
<1>6. ASSUME NEW r \in Requests, Prepare(r) PROVE TypeOK'
  <2>1. Append(messages[ask[r].conv], Question(r)) \in Seq(Messages)
    BY <1>0, MessageTypes, AskTypes
  <2>2. T3' /\ T5'
    <3>1. CASE Proceeded(r, Append(messages[ask[r].conv], Question(r)))
      BY <2>1, <3>1, ProceededTypes
    <3>2. CASE ~Proceeded(r, Append(messages[ask[r].conv], Question(r)))
      <4>1. T3'
        BY <1>6, <1>0, <3>2, PrepareCases DEF Prepared
      <4>2. T5'
        BY <1>6, <1>0, <2>1, <3>2, PrepareCases, AskTypes, ZenonT(60) DEF Prepared
      <4> QED
        BY <4>1, <4>2
    <3> QED
      BY <3>1, <3>2
  <2>3. T1' /\ T2' /\ T4'
    BY <1>6, <1>0 DEF Prepare
  <2> QED
    BY <1>0, <2>2, <2>3
<1>7. ASSUME NEW r \in Requests, Retrieved(r) PROVE TypeOK'
  <2>1. \E sourced \in BOOLEAN : Proceed(r, sourced, messages[ask[r].conv])
    BY <1>7 DEF Retrieved
  <2>2. messages[ask[r].conv] \in Seq(Messages)
    BY <1>0, AskTypes
  <2>3. T3' /\ T5'
    BY <2>1, <2>2, ProceedCases, ProceededTypes
  <2>4. T1' /\ T2' /\ T4'
    BY <1>7, <1>0 DEF Retrieved
  <2> QED
    BY <1>0, <2>3, <2>4
<1>8. ASSUME NEW r \in Requests, Loaded(r) PROVE TypeOK'
  <2>1. T1' /\ T2'
    BY <1>8, <1>0, AskTypes DEF Loaded, Replace, End
  <2>2. T3' /\ T4'
    BY <1>8, <1>0, AskTypes, ZenonT(60) DEF Loaded, Replace, End
  <2>3. T5'
    BY <1>8, <1>0, AskTypes, MessageTypes DEF Loaded, Replace, End
  <2> QED
    BY <1>0, <2>1, <2>2, <2>3
<1>9. ASSUME NEW r \in Requests, Collected(r) PROVE TypeOK'
  <2>1. T1' /\ T2'
    BY <1>9, <1>0, AskTypes DEF Collected, Store, End, StreamOr
  <2>2. T3' /\ T4'
    BY <1>9, <1>0, AskTypes, ZenonT(60) DEF Collected, Store, End, StreamOr
  <2>3. T5'
    <3>1. PICK m \in Messages : Store(r, m, messages[ask[r].conv], StreamOr(r, "fixed"))
      BY <1>9, MessageTypes DEF Collected
    <3>2. Append(messages[ask[r].conv], m) \in Seq(Messages) /\ messages[ask[r].conv] \in Seq(Messages)
      BY <1>0, AskTypes
    <3> QED
      BY <1>0, <3>1, <3>2, AskTypes DEF Store, End
  <2> QED
    BY <1>0, <2>1, <2>2, <2>3
<1>10. ASSUME NEW r \in Requests, WorkFails(r) PROVE TypeOK'
  <2>1. T1' /\ T2'
    BY <1>10, <1>0, AskTypes DEF WorkFails, End
  <2>2. T3' /\ T4'
    BY <1>10, <1>0, AskTypes DEF WorkFails, End
  <2>3. T5'
    BY <1>10, <1>0, AskTypes, MessageTypes DEF WorkFails, End
  <2> QED
    BY <1>0, <2>1, <2>2, <2>3
<1>11. ASSUME NEW r \in Requests, WorkCancelled(r) PROVE TypeOK'
  <2>1. T1' /\ T2'
    BY <1>11, <1>0, AskTypes DEF WorkCancelled, End
  <2>2. T3' /\ T4'
    BY <1>11, <1>0, AskTypes DEF WorkCancelled, End
  <2>3. T5'
    BY <1>11, <1>0, AskTypes, MessageTypes DEF WorkCancelled, End
  <2> QED
    BY <1>0, <2>1, <2>2, <2>3
<1>12. ASSUME NEW r \in Requests, Resume(r) PROVE TypeOK'
  <2>1. T1' /\ T2'
    BY <1>12, <1>0, AskTypes DEF Resume, Finish
  <2>2. T3' /\ T4'
    BY <1>12, <1>0, AskTypes DEF Resume, Finish
  <2>3. T5'
    BY <1>12, <1>0, AskTypes, MessageTypes DEF Resume, Finish
  <2> QED
    BY <1>0, <2>1, <2>2, <2>3
<1>13. ASSUME NEW r \in Requests, StartBody(r) PROVE TypeOK'
  <2>1. T1' /\ T2'
    BY <1>13, <1>0, AskTypes DEF StartBody, Finish
  <2>2. T3' /\ T4'
    BY <1>13, <1>0, AskTypes DEF StartBody, Finish
  <2>3. T5'
    BY <1>13, <1>0, AskTypes, MessageTypes DEF StartBody, Finish
  <2> QED
    BY <1>0, <2>1, <2>2, <2>3
<1>14. ASSUME NEW r \in Requests, BodyDropped(r) PROVE TypeOK'
  <2>1. T1' /\ T2'
    BY <1>14, <1>0, AskTypes DEF BodyDropped
  <2>2. T3' /\ T4'
    BY <1>14, <1>0, AskTypes DEF BodyDropped
  <2>3. T5'
    BY <1>14, <1>0, AskTypes, MessageTypes DEF BodyDropped
  <2> QED
    BY <1>0, <2>1, <2>2, <2>3
<1>15. ASSUME NEW r \in Requests, LastPart(r) PROVE TypeOK'
  <2>1. T1' /\ T2'
    BY <1>15, <1>0, AskTypes DEF LastPart, Finish
  <2>2. T3' /\ T4'
    BY <1>15, <1>0, AskTypes DEF LastPart, Finish
  <2>3. T5'
    BY <1>15, <1>0, AskTypes, MessageTypes DEF LastPart, Finish
  <2> QED
    BY <1>0, <2>1, <2>2, <2>3
<1>16. ASSUME NEW r \in Requests, Interrupted(r) PROVE TypeOK'
  <2>1. T1' /\ T2'
    BY <1>16, <1>0, AskTypes DEF Interrupted, Finish
  <2>2. T3' /\ T4'
    BY <1>16, <1>0, AskTypes DEF Interrupted, Finish
  <2>3. T5'
    BY <1>16, <1>0, AskTypes, MessageTypes DEF Interrupted, Finish
  <2> QED
    BY <1>0, <2>1, <2>2, <2>3
<1>17. ASSUME NEW r \in Requests, Complete(r) PROVE TypeOK'
  <2>1. T1' /\ T2'
    BY <1>17, <1>0, AskTypes DEF Complete, Finish
  <2>2. T3' /\ T4'
    BY <1>17, <1>0, AskTypes DEF Complete, Finish
  <2>3. T5'
    BY <1>17, <1>0, AskTypes, MessageTypes DEF Complete, Finish
  <2> QED
    BY <1>0, <2>1, <2>2, <2>3
<1>18. ASSUME NEW r \in Requests, Close(r) PROVE TypeOK'
  <2>1. T1' /\ T2'
    BY <1>18, <1>0, AskTypes DEF Close, Finish
  <2>2. T3' /\ T4'
    BY <1>18, <1>0, AskTypes DEF Close, Finish
  <2>3. T5'
    BY <1>18, <1>0, AskTypes, MessageTypes DEF Close, Finish
  <2> QED
    BY <1>0, <2>1, <2>2, <2>3
<1>19. ASSUME NEW r \in Requests, BodyCancelled(r) PROVE TypeOK'
  <2>1. T1' /\ T2'
    BY <1>19, <1>0, AskTypes DEF BodyCancelled, Finish
  <2>2. T3' /\ T4'
    BY <1>19, <1>0, AskTypes DEF BodyCancelled, Finish
  <2>3. T5'
    BY <1>19, <1>0, AskTypes, MessageTypes DEF BodyCancelled, Finish
  <2> QED
    BY <1>0, <2>1, <2>2, <2>3
<1>20. ASSUME UNCHANGED vars PROVE TypeOK'
  BY <1>20, <1>0 DEF vars
<1> QED
  BY <1>1, <1>2, <1>3, <1>4, <1>5, <1>6, <1>7, <1>8, <1>9, <1>10, <1>11, <1>12, <1>13, <1>14, <1>15, <1>16, <1>17, <1>18, <1>19, <1>20 DEF Next, Step

-------------------------------------------------------------------------------
(* Slots.                                                                  *)

\* A step of a request finishes it or moves it on; a stopped one does not begin
\* its body.
Moved(r) ==
  /\ pc[r] \in Working /\ UNCHANGED <<limit, cancelled, kill, ask, exists>>
  /\ \/ Finish(r)
     \/ /\ active' = active
        /\ \E l \in Working \cup {"dropped"} :
             /\ pc' = [pc EXCEPT ![r] = l]
             /\ l \in InTask \cup InBody => pc[r] \in InTask \cup InBody \/ ~cancelled[r]

\* This is what every step of a request does.
LEMMA StepMoves == ASSUME NEW r \in Requests, Step(r) PROVE Moved(r)
<1> USE DEF Moved, Working, InTask, InBody
<1>1. CASE Prepare(r)
  <2>1. /\ UNCHANGED <<limit, cancelled, kill, ask, exists, active>> /\ pc[r] = "task"
        /\ \E l \in {"ended", "retrieve", "load", "collect"} : pc' = [pc EXCEPT ![r] = l]
    BY <1>1, PrepareCases DEF Prepare, Prepared, Proceeded
  <2> QED
    BY <2>1
<1>2. CASE Retrieved(r)
  <2>1. /\ UNCHANGED <<limit, cancelled, kill, ask, exists, active>> /\ pc[r] = "retrieve"
        /\ \E sourced \in BOOLEAN : Proceed(r, sourced, messages[ask[r].conv])
    BY <1>2 DEF Retrieved
  <2>2. \E l \in {"ended", "load", "collect"} : pc' = [pc EXCEPT ![r] = l]
    BY <2>1, ProceedCases DEF Proceeded
  <2> QED
    BY <2>1, <2>2
<1>3. CASE Loaded(r)
  BY <1>3 DEF Loaded, End
<1>4. CASE Collected(r)
  BY <1>4 DEF Collected, Store, End
<1>5. CASE WorkFails(r)
  BY <1>5 DEF WorkFails, End
<1>6. CASE WorkCancelled(r)
  BY <1>6 DEF WorkCancelled, End
<1>7. CASE Resume(r)
  BY <1>7 DEF Resume
<1>8. CASE StartBody(r)
  BY <1>8 DEF StartBody, Withdrawn
<1>9. CASE BodyDropped(r)
  BY <1>9 DEF BodyDropped
<1>10. CASE LastPart(r)
  BY <1>10 DEF LastPart
<1>11. CASE Interrupted(r)
  BY <1>11 DEF Interrupted
<1>12. CASE Complete(r)
  BY <1>12 DEF Complete
<1>13. CASE Close(r)
  BY <1>13 DEF Close
<1>14. CASE BodyCancelled(r)
  BY <1>14 DEF BodyCancelled
<1> QED
  BY <1>1, <1>2, <1>3, <1>4, <1>5, <1>6, <1>7, <1>8, <1>9, <1>10, <1>11, <1>12, <1>13, <1>14
    DEF Step

\* Only the request that works for a conversation gives its slot back.
LEMMA SlotsKept == ASSUME TypeOK, SlotsInv, [Next]_vars PROVE SlotsInv'
<1>1. ASSUME NEW r \in Requests, Step(r) PROVE SlotsInv'
  <2>1. Moved(r)
    BY <1>1, StepMoves
  <2>2. CASE Finish(r)
    BY <2>1, <2>2, AskTypes, NoneAssumption DEF Moved, Finish, TypeOK, SlotsInv, Working, InTask, InBody
  <2>3. CASE ~Finish(r)
    <3>1. PICK l \in Working \cup {"dropped"} :
             active' = active /\ ask' = ask /\ cancelled' = cancelled /\ pc' = [pc EXCEPT ![r] = l]
      BY <2>1, <2>3 DEF Moved
    <3>2. \A q \in Requests : pc'[q] = IF q = r THEN l ELSE pc[q]
      BY <3>1 DEF TypeOK
    <3>3. pc[r] \in Working /\ active[ask[r].conv] = r
      BY <2>1 DEF Moved, SlotsInv
    <3>4. l \notin {"new", "refused"}
      BY DEF Working, InTask, InBody
    <3>5. \A c \in Conversations : active[c] # None => active[c] \in Requests
      BY DEF TypeOK
    <3> QED
      BY <3>1, <3>2, <3>3, <3>4, <3>5 DEF SlotsInv
  <2> QED
    BY <2>2, <2>3
<1>2. ASSUME NEW r \in Requests, Begin(r) PROVE SlotsInv'
  <2>1. CASE MayBegin(ask[r].conv)
    <3>1. /\ active' = [active EXCEPT ![ask[r].conv] = r] /\ pc' = [pc EXCEPT ![r] = "task"]
          /\ pc[r] = "new" /\ ask' = ask /\ cancelled' = cancelled
      BY <1>2, <2>1 DEF Begin
    <3>2. active[ask[r].conv] = None /\ r # None
      BY <2>1, NoneAssumption DEF MayBegin
    <3>3. \A q \in Requests : pc'[q] = IF q = r THEN "task" ELSE pc[q]
      BY <3>1 DEF TypeOK
    <3>4. \A c \in Conversations : active'[c] = IF c = ask[r].conv THEN r ELSE active[c]
      BY <3>1, AskTypes DEF TypeOK
    <3>5. \A c \in Conversations : active[c] # None => active[c] \in Requests /\ active[c] # r
      BY <3>1 DEF TypeOK, SlotsInv, Working, InTask, InBody
    <3>6. \A q \in Requests : ask[q].conv \in Conversations
      BY AskTypes
    <3>7. "task" \in Working
      BY DEF Working, InTask
    <3>8. \A q \in Requests : pc'[q] \in Working => active'[ask'[q].conv] = q
      BY <3>1, <3>2, <3>3, <3>4, <3>6, NoneAssumption DEF SlotsInv
    <3>9. \A c \in Conversations : active'[c] # None =>
            ask'[active'[c]].conv = c /\ pc'[active'[c]] \in Working \cup {"dropped"}
      BY <3>1, <3>3, <3>4, <3>5, <3>7 DEF SlotsInv
    <3> QED
      BY <3>1, <3>3, <3>8, <3>9 DEF SlotsInv
  <2>2. CASE ~MayBegin(ask[r].conv)
    BY <1>2, <2>2, SMTT(30) DEF Begin, TypeOK, SlotsInv, Working, InTask, InBody
  <2> QED
    BY <2>1, <2>2
<1>3. ASSUME NEW u \in Users, NEW c \in Conversations, Stop(u, c) PROVE SlotsInv'
  <2>1. pc' = pc /\ active' = active /\ ask' = ask /\ active[c] # None
        /\ cancelled' = [cancelled EXCEPT ![active[c]] = TRUE]
    BY <1>3 DEF Stop
  <2>2. pc[active[c]] # "new"
    BY <2>1 DEF SlotsInv, Working, InTask, InBody
  <2>3. \A r \in Requests : r # active[c] => cancelled'[r] = cancelled[r]
    BY <2>1 DEF TypeOK
  <2> QED
    BY <2>1, <2>2, <2>3 DEF SlotsInv
<1>4. ASSUME NEW r \in Requests, ClientLeaves(r) PROVE SlotsInv'
  BY <1>4 DEF ClientLeaves, SlotsInv
<1>5. ASSUME NEW c \in Conversations, DeleteConversation(c) PROVE SlotsInv'
  BY <1>5 DEF DeleteConversation, SlotsInv
<1>6. ASSUME NEW m \in Models \cup {None}, RuntimeChanges(m) PROVE SlotsInv'
  BY <1>6 DEF RuntimeChanges, SlotsInv
<1>7. ASSUME UNCHANGED vars PROVE SlotsInv'
  BY <1>7 DEF vars, SlotsInv
<1> QED
  BY <1>1, <1>2, <1>3, <1>4, <1>5, <1>6, <1>7 DEF Next

\* A slot is taken below the limit only.
LEMMA FewKept == ASSUME TypeOK, SlotsInv, FewSlots, [Next]_vars PROVE FewSlots'
<1>1. ASSUME NEW r \in Requests, Step(r) PROVE FewSlots'
  <2>1. Moved(r)
    BY <1>1, StepMoves
  <2>2. CASE Finish(r)
    <3>1. Held' = Held \ {ask[r].conv} /\ limit' = limit
      BY <2>1, <2>2, AskTypes DEF Moved, Finish, TypeOK, Held
    <3>2. IsFiniteSet(Held') /\ Cardinality(Held') <= Cardinality(Held)
      BY <3>1, FS_RemoveElement, FS_CardinalityType, SMTT(30) DEF FewSlots
    <3> QED
      BY <3>1, <3>2, FS_CardinalityType DEF FewSlots, TypeOK
  <2>3. CASE ~Finish(r)
    BY <2>1, <2>3 DEF Moved, FewSlots, Held
  <2> QED
    BY <2>2, <2>3
<1>2. ASSUME NEW r \in Requests, Begin(r) PROVE FewSlots'
  <2>1. CASE MayBegin(ask[r].conv)
    <3>1. Held' = Held \cup {ask[r].conv} /\ limit' = limit /\ ask[r].conv \notin Held
      <4>1. \A c \in Conversations : active'[c] = IF c = ask[r].conv THEN r ELSE active[c]
        BY <1>2, <2>1, AskTypes DEF Begin, TypeOK
      <4>2. active[ask[r].conv] = None /\ r # None /\ limit' = limit
        BY <1>2, <2>1, NoneAssumption DEF Begin, MayBegin
      <4> QED
        BY <4>1, <4>2, AskTypes DEF Held
    <3>2. IsFiniteSet(Held') /\ Cardinality(Held') = Cardinality(Held) + 1
      BY <3>1, FS_AddElement DEF FewSlots
    <3> QED
      BY <2>1, <3>1, <3>2, FS_CardinalityType DEF FewSlots, MayBegin, TypeOK
  <2>2. CASE ~MayBegin(ask[r].conv)
    BY <1>2, <2>2 DEF Begin, FewSlots, Held
  <2> QED
    BY <2>1, <2>2
<1>3. ASSUME NEW u \in Users, NEW c \in Conversations, Stop(u, c) PROVE FewSlots'
  BY <1>3 DEF Stop, FewSlots, Held
<1>4. ASSUME NEW r \in Requests, ClientLeaves(r) PROVE FewSlots'
  BY <1>4 DEF ClientLeaves, FewSlots, Held
<1>5. ASSUME NEW c \in Conversations, DeleteConversation(c) PROVE FewSlots'
  BY <1>5 DEF DeleteConversation, FewSlots, Held
<1>6. ASSUME NEW m \in Models \cup {None}, RuntimeChanges(m) PROVE FewSlots'
  BY <1>6 DEF RuntimeChanges, FewSlots, Held
<1>7. ASSUME UNCHANGED vars PROVE FewSlots'
  BY <1>7 DEF vars, FewSlots, Held
<1> QED
  BY <1>1, <1>2, <1>3, <1>4, <1>5, <1>6, <1>7 DEF Next

\* A stop cancels the task that is running, or the flag is looked at before the
\* next one begins.
LEMMA StopKept == ASSUME TypeOK, SlotsInv, StopReaches, [Next]_vars PROVE StopReaches'
<1>1. ASSUME NEW r \in Requests, Step(r) PROVE StopReaches'
  <2>1. Moved(r)
    BY <1>1, StepMoves
  <2>2. CASE Finish(r)
    BY <2>1, <2>2 DEF Moved, Finish, TypeOK, StopReaches, InTask, InBody
  <2>3. CASE ~Finish(r)
    BY <2>1, <2>3 DEF Moved, TypeOK, StopReaches
  <2> QED
    BY <2>2, <2>3
<1>2. ASSUME NEW r \in Requests, Begin(r) PROVE StopReaches'
  <2>1. /\ pc[r] = "new" /\ ~cancelled[r] /\ cancelled' = cancelled /\ kill' = kill
        /\ \A q \in Requests : q # r => pc'[q] = pc[q]
    BY <1>2 DEF Begin, TypeOK, SlotsInv
  <2> QED
    BY <2>1 DEF StopReaches
<1>3. ASSUME NEW u \in Users, NEW c \in Conversations, Stop(u, c) PROVE StopReaches'
  <2> DEFINE s == active[c]
  <2>1. /\ pc' = pc /\ s \in Requests
        /\ cancelled' = [cancelled EXCEPT ![s] = TRUE]
        /\ kill' = [kill EXCEPT ![s] = @ \/ pc[s] \in InTask \cup InBody]
    BY <1>3 DEF Stop, TypeOK
  <2>2. \A q \in Requests : q # s => cancelled'[q] = cancelled[q] /\ kill'[q] = kill[q]
    BY <2>1 DEF TypeOK
  <2>3. pc[s] \in InTask \cup InBody => kill'[s]
    BY <2>1 DEF TypeOK
  <2> QED
    BY <2>1, <2>2, <2>3 DEF StopReaches
<1>4. ASSUME NEW r \in Requests, ClientLeaves(r) PROVE StopReaches'
  BY <1>4 DEF ClientLeaves, TypeOK, SlotsInv, StopReaches, InTask, InBody
<1>5. ASSUME NEW c \in Conversations, DeleteConversation(c) PROVE StopReaches'
  BY <1>5 DEF DeleteConversation, TypeOK, SlotsInv, StopReaches, InTask, InBody
<1>6. ASSUME NEW m \in Models \cup {None}, RuntimeChanges(m) PROVE StopReaches'
  BY <1>6 DEF RuntimeChanges, TypeOK, SlotsInv, StopReaches, InTask, InBody
<1>7. ASSUME UNCHANGED vars PROVE StopReaches'
  BY <1>7 DEF vars, StopReaches
<1> QED
  BY <1>1, <1>2, <1>3, <1>4, <1>5, <1>6, <1>7 DEF Next

-------------------------------------------------------------------------------
(* Messages.                                                               *)

\* What a step of a request stores, and how it changes the request.
Written(r) ==
  LET c == ask[r].conv
      Store2(ms) == c \in exists /\ ~kill[r] /\ messages' = [messages EXCEPT ![c] = ms] IN
  \/ messages' = messages /\ (Asked(r)' => Asked(r))
  \/ pc[r] = "task" /\ Store2(Append(messages[c], Question(r)))
  \/ /\ pc[r] = "task" /\ ~Asked(r)'
     /\ Store2(Append(Append(messages[c], Question(r)), Refusal(r)))
  \/ /\ Asked(r) /\ pc[r] \in InTask \cup InBody /\ ~Asked(r)'
     /\ \/ Store2(Append(messages[c], Refusal(r)))
        \/ provider[r] = ask[r].model /\ Store2(Append(messages[c], Answer(r)))

\* A step changes the place, the outcome and the provider of its request alone.
Alone(r) == \A q \in Requests \ {r} :
  pc'[q] = pc[q] /\ result'[q] = result[q] /\ provider'[q] = provider[q]

\* This too is what every step does.
LEMMA StepAlone == ASSUME TypeOK, NEW r \in Requests, Step(r) PROVE Alone(r)
<1> USE DEF Alone, TypeOK
<1>1. CASE Prepare(r)
  BY <1>1, PrepareCases DEF Prepared, Proceeded
<1>2. CASE Retrieved(r)
  BY <1>2, ProceedCases DEF Retrieved, Proceeded
<1>3. CASE Loaded(r)
  BY <1>3 DEF Loaded, End
<1>4. CASE Collected(r)
  BY <1>4 DEF Collected, Store, End
<1>5. CASE WorkFails(r)
  BY <1>5 DEF WorkFails, End
<1>6. CASE WorkCancelled(r)
  BY <1>6 DEF WorkCancelled, End
<1>7. CASE Resume(r)
  BY <1>7 DEF Resume, Finish
<1>8. CASE StartBody(r)
  BY <1>8 DEF StartBody, Finish
<1>9. CASE BodyDropped(r)
  BY <1>9 DEF BodyDropped
<1>10. CASE LastPart(r)
  BY <1>10 DEF LastPart, Finish
<1>11. CASE Interrupted(r)
  BY <1>11 DEF Interrupted, Finish
<1>12. CASE Complete(r)
  BY <1>12 DEF Complete, Finish
<1>13. CASE Close(r)
  BY <1>13 DEF Close, Finish
<1>14. CASE BodyCancelled(r)
  BY <1>14 DEF BodyCancelled, Finish
<1> QED
  BY <1>1, <1>2, <1>3, <1>4, <1>5, <1>6, <1>7, <1>8, <1>9, <1>10, <1>11, <1>12, <1>13, <1>14
    DEF Step

\* The provider and the outcome of a request fit its place.
LEMMA ProviderKept == ASSUME TypeOK, RightProvider, [Next]_vars PROVE RightProvider'
<1>1. ASSUME NEW r \in Requests, Step(r) PROVE RightProvider'
  <2> USE DEF TypeOK
  <2>1. Alone(r) /\ ask' = ask
    BY <1>1, StepAlone, StepMoves DEF Moved
  <2>2. SUFFICES /\ pc'[r] = "collect" \/ result'[r] = "live" => provider'[r] = ask[r].model
                 /\ pc'[r] = "final" => result'[r] = "live"
    BY <2>1 DEF Alone, RightProvider
  <2>3. CASE Prepare(r)
    <3>1. pc[r] = "task" /\ Prepared(r)
      BY <2>3, PrepareCases DEF Prepare
    <3>2. CASE Proceeded(r, Append(messages[ask[r].conv], Question(r)))
      BY <3>1, <3>2 DEF Proceeded, RightProvider
    <3>3. CASE ~Proceeded(r, Append(messages[ask[r].conv], Question(r)))
      BY <3>1, <3>3 DEF Prepared, RightProvider
    <3> QED
      BY <3>2, <3>3
  <2>4. CASE Retrieved(r)
    BY <2>4, ProceedCases, SMTT(30) DEF Retrieved, Proceeded, RightProvider
  <2>5. CASE Loaded(r)
    BY <2>5 DEF Loaded, RightProvider, End
  <2>6. CASE Collected(r)
    BY <2>6 DEF Collected, RightProvider, Store, End
  <2>7. CASE WorkFails(r)
    BY <2>7 DEF WorkFails, RightProvider, End
  <2>8. CASE WorkCancelled(r)
    BY <2>8 DEF WorkCancelled, RightProvider, End
  <2>9. CASE Resume(r)
    BY <2>9 DEF Resume, RightProvider, Finish
  <2>10. CASE StartBody(r)
    BY <2>10 DEF StartBody, RightProvider, Finish
  <2>11. CASE BodyDropped(r)
    BY <2>11 DEF BodyDropped, RightProvider
  <2>12. CASE LastPart(r)
    BY <2>12 DEF LastPart, RightProvider, Finish
  <2>13. CASE Interrupted(r)
    BY <2>13 DEF Interrupted, RightProvider, Finish
  <2>14. CASE Complete(r)
    BY <2>14 DEF Complete, RightProvider, Finish
  <2>15. CASE Close(r)
    BY <2>15 DEF Close, RightProvider, Finish
  <2>16. CASE BodyCancelled(r)
    BY <2>16 DEF BodyCancelled, RightProvider, Finish
  <2> QED
    BY <1>1, <2>3, <2>4, <2>5, <2>6, <2>7, <2>8, <2>9, <2>10, <2>11, <2>12, <2>13, <2>14, <2>15, <2>16
      DEF Step
<1>2. ASSUME NEW r \in Requests, Begin(r) PROVE RightProvider'
  BY <1>2 DEF Begin, RightProvider, TypeOK
<1>3. ASSUME NEW u \in Users, NEW c \in Conversations, Stop(u, c) PROVE RightProvider'
  BY <1>3 DEF Stop, RightProvider, TypeOK
<1>4. ASSUME NEW r \in Requests, ClientLeaves(r) PROVE RightProvider'
  BY <1>4 DEF ClientLeaves, RightProvider, TypeOK
<1>5. ASSUME NEW c \in Conversations, DeleteConversation(c) PROVE RightProvider'
  BY <1>5 DEF DeleteConversation, RightProvider, TypeOK
<1>6. ASSUME NEW m \in Models \cup {None}, RuntimeChanges(m) PROVE RightProvider'
  BY <1>6 DEF RuntimeChanges, RightProvider, TypeOK
<1>7. ASSUME UNCHANGED vars PROVE RightProvider'
  BY <1>7, SMTT(30) DEF vars, RightProvider
<1> QED
  BY <1>1, <1>2, <1>3, <1>4, <1>5, <1>6, <1>7 DEF Next

\* Going on stores the history it was given, or that with a refusal.
LEMMA ProceededWrites ==
  ASSUME TypeOK, NEW r \in Requests, NEW ms, Proceeded(r, ms)
  PROVE  \/ messages' = [messages EXCEPT ![ask[r].conv] = ms]
         \/ /\ messages' = [messages EXCEPT ![ask[r].conv] = Append(ms, Refusal(r))]
            /\ pc'[r] = "ended" /\ result'[r] # "live" /\ ask[r].conv \in exists
<1>1. DOMAIN pc = Requests /\ DOMAIN result = Requests
  BY DEF TypeOK
<1>2. ASSUME pc' = [pc EXCEPT ![r] = "ended"], NEW o \in {"fixed", "value"}, result' = [result EXCEPT ![r] = o]
      PROVE  pc'[r] = "ended" /\ result'[r] # "live"
  <2>1. pc'[r] = "ended"
    BY <1>1, <1>2
  <2>2. result'[r] = o
    BY <1>1, <1>2, SMTT(30)
  <2> QED BY <2>1, <2>2
<1> QED BY <1>2, Zenon DEF Proceeded

\* Every step of a request is one of the cases of Written.
LEMMA StepWrites == ASSUME TypeOK, RightProvider, NEW r \in Requests, Step(r) PROVE Written(r)
<1>0. /\ ask' = ask /\ ask[r].conv \in Conversations /\ DOMAIN messages = Conversations
      /\ [messages EXCEPT ![ask[r].conv] = messages[ask[r].conv]] = messages
  BY StepMoves, AskTypes DEF Moved, TypeOK
<1>1. CASE Prepare(r)
  <2>0. pc[r] = "task" /\ ~kill[r] /\ exists' = exists
    BY <1>1 DEF Prepare
  <2> DEFINE ms == Append(messages[ask[r].conv], Question(r))
  <2>1. CASE ask[r].conv \in exists /\ Proceeded(r, ms)
    <3>1. CASE messages' = [messages EXCEPT ![ask[r].conv] = ms]
      BY <2>0, <2>1, <3>1, Zenon DEF Written
    <3>2. CASE /\ messages' = [messages EXCEPT ![ask[r].conv] = Append(ms, Refusal(r))]
               /\ pc'[r] = "ended" /\ result'[r] # "live"
      <4>1. ~Asked(r)'
        BY <3>2 DEF Asked
      <4> QED BY <2>0, <2>1, <3>2, <4>1, Zenon DEF Written
    <3> QED BY <2>1, <3>1, <3>2, ProceededWrites, Zenon
  <2>2. CASE messages' = [messages EXCEPT ![ask[r].conv] = messages[ask[r].conv]] /\ pc'[r] = "ended" /\ result'[r] = "error"
    <3>1. messages' = messages /\ ~Asked(r)'
      BY <1>0, <2>2 DEF Asked
    <3> QED BY <3>1, Zenon DEF Written
  <2>3. CASE ask[r].conv \in exists /\ messages' = [messages EXCEPT ![ask[r].conv] = ms]
    BY <2>0, <2>3, Zenon DEF Written
  <2>4. \/ ask[r].conv \in exists /\ (Proceeded(r, ms) \/ messages' = [messages EXCEPT ![ask[r].conv] = ms])
        \/ /\ messages' = [messages EXCEPT ![ask[r].conv] = messages[ask[r].conv]]
           /\ pc'[r] = "ended" /\ result'[r] = "error"
    <3>1. DOMAIN pc = Requests /\ DOMAIN result = Requests
      BY DEF TypeOK
    <3>2. pc' = [pc EXCEPT ![r] = "ended"] /\ result' = [result EXCEPT ![r] = "error"]
            => pc'[r] = "ended" /\ result'[r] = "error"
      BY <3>1
    <3> QED BY <1>1, <3>2, PrepareCases, Zenon DEF Prepared
  <2> QED BY <2>1, <2>2, <2>3, <2>4
<1>2. CASE Retrieved(r)
  <2> DEFINE ms == messages[ask[r].conv]
  <2>1. pc[r] = "retrieve" /\ ~kill[r] /\ exists' = exists /\ Proceeded(r, ms)
    BY <1>2, ProceedCases DEF Retrieved
  <2>2. CASE messages' = [messages EXCEPT ![ask[r].conv] = ms]
    BY <1>0, <2>1, <2>2 DEF Written, Asked, InTask
  <2>3. CASE /\ messages' = [messages EXCEPT ![ask[r].conv] = Append(ms, Refusal(r))]
             /\ pc'[r] = "ended" /\ result'[r] # "live" /\ ask[r].conv \in exists
    BY <1>0, <2>1, <2>3 DEF Written, Asked, InTask
  <2> QED BY <2>1, <2>2, <2>3, ProceededWrites, Zenon
<1> USE DEF Written, Asked, InTask, InBody
<1>3. CASE Loaded(r)
  BY <1>3, <1>0 DEF Loaded, TypeOK, End
<1>4. CASE Collected(r)
  <2>1. PICK m \in {Answer(r), Refusal(r)} : Store(r, m, messages[ask[r].conv], StreamOr(r, "fixed"))
    BY <1>4 DEF Collected
  <2>2. pc[r] = "collect" /\ ~kill[r] /\ provider[r] = ask[r].model
    BY <1>4 DEF Collected, RightProvider
  <2>3. PICK outcome \in {"fixed", "value", "error"} :
          pc' = [pc EXCEPT ![r] = "ended"] /\ result' = [result EXCEPT ![r] = outcome]
    BY <2>1 DEF Store, End, StreamOr
  <2>4. pc'[r] = "ended" /\ result'[r] # "live"
    BY <2>3 DEF TypeOK
  <2> QED
    BY <1>0, <2>1, <2>2, <2>4 DEF Store, End
<1>5. CASE WorkFails(r)
  BY <1>5, <1>0 DEF WorkFails, TypeOK, End
<1>6. CASE WorkCancelled(r)
  BY <1>6, <1>0 DEF WorkCancelled, TypeOK, End
<1>7. CASE Resume(r)
  BY <1>7, <1>0 DEF Resume, TypeOK, Finish, Streamed
<1>8. CASE StartBody(r)
  BY <1>8, <1>0 DEF StartBody, TypeOK, Finish
<1>9. CASE BodyDropped(r)
  BY <1>9, <1>0 DEF BodyDropped, TypeOK
<1>10. CASE LastPart(r)
  BY <1>10, <1>0 DEF LastPart, TypeOK, Finish
<1>11. CASE Interrupted(r)
  BY <1>11, <1>0 DEF Interrupted, TypeOK, Finish
<1>12. CASE Complete(r)
  <2>1. /\ pc[r] = "final" /\ ~kill[r] /\ result[r] = "live" /\ pc'[r] \in {"over", "closing"}
        /\ provider[r] = ask[r].model
    BY <1>12 DEF Complete, Finish, TypeOK, RightProvider
  <2>2. \/ messages' = messages
        \/ ask[r].conv \in exists /\ messages' = [messages EXCEPT ![ask[r].conv] = Append(messages[ask[r].conv], Answer(r))]
    BY <1>12 DEF Complete
  <2> QED
    BY <1>0, <2>1, <2>2
<1>13. CASE Close(r)
  BY <1>13, <1>0 DEF Close, TypeOK, Finish
<1>14. CASE BodyCancelled(r)
  BY <1>14, <1>0 DEF BodyCancelled, TypeOK, Finish
<1> QED
  BY <1>1, <1>2, <1>3, <1>4, <1>5, <1>6, <1>7, <1>8, <1>9, <1>10, <1>11, <1>12, <1>13, <1>14
    DEF Step

-------------------------------------------------------------------------------
(* Histories.                                                              *)

\* A history in which every answer follows its question and names its model, and
\* one with an answer to r.
Follows(ms) == \A i \in 1..Len(ms) :
  ms[i].role = "assistant" => i > 1 /\ ms[i-1] = Question(ms[i].of)
Names(ms) == \A i \in 1..Len(ms) : ms[i].role = "assistant" => ms[i].by = ms[i].model
HasAnswer(ms, r) == \E i \in 1..Len(ms) : ms[i].of = r /\ ms[i].role = "assistant"

\* A message at the end leaves the others where they are.
LEMMA Appended ==
  ASSUME NEW ms \in Seq(Messages), NEW m \in Messages
  PROVE  /\ Append(ms, m) \in Seq(Messages) /\ Append(ms, m) # <<>>
         /\ Len(Append(ms, m)) = Len(ms) + 1 /\ Len(ms) \in Nat
         /\ Append(ms, m)[Len(Append(ms, m))] = m
         /\ \A i \in 1..Len(ms) : Append(ms, m)[i] = ms[i]
OBVIOUS

\* A question may follow anything.
LEMMA QuestionFollows ==
  ASSUME TypeOK, NEW ms \in Seq(Messages), NEW r \in Requests
  PROVE  LET new == Append(ms, Question(r)) IN
         /\ Follows(ms) => Follows(new)
         /\ Names(ms) => Names(new)
         /\ \A q \in Requests : HasAnswer(new, q) => HasAnswer(ms, q)
<1> DEFINE new == Append(ms, Question(r))
<1>1. /\ Len(new) = Len(ms) + 1 /\ Len(ms) \in Nat /\ new[Len(ms) + 1] = Question(r)
      /\ \A i \in 1..Len(ms) : new[i] = ms[i]
  BY Appended, MessageTypes
<1>2. Question(r).role = "user"
  BY DEF Question
<1> HIDE DEF new
<1>3. \A i \in 1..Len(new) : new[i].role = "assistant" => i \in 1..Len(ms) /\ new[i] = ms[i]
  BY <1>1, <1>2
<1>4. Follows(ms) => Follows(new)
  <2> SUFFICES ASSUME Follows(ms), NEW i \in 1..Len(new), new[i].role = "assistant"
               PROVE  i > 1 /\ new[i-1] = Question(new[i].of)
    BY DEF Follows
  <2>1. i \in 1..Len(ms) /\ new[i] = ms[i]
    BY <1>3
  <2>2. i > 1 /\ ms[i-1] = Question(ms[i].of)
    BY <2>1 DEF Follows
  <2>3. i - 1 \in 1..Len(ms)
    BY <1>1, <2>1, <2>2
  <2> QED
    BY <1>1, <2>1, <2>2, <2>3
<1>5. Names(ms) => Names(new)
  BY <1>3 DEF Names
<1>6. \A q \in Requests : HasAnswer(new, q) => HasAnswer(ms, q)
  BY <1>3 DEF HasAnswer
<1> QED
  BY <1>4, <1>5, <1>6 DEF new

\* A reply may follow the question of its request.
LEMMA ReplyFollows ==
  ASSUME NEW ms \in Seq(Messages), NEW r \in Requests, NEW m \in Messages, m.of = r, m.by = m.model,
         ms # <<>>, ms[Len(ms)] = Question(r)
  PROVE  LET new == Append(ms, m) IN
         /\ Follows(ms) => Follows(new)
         /\ Names(ms) => Names(new)
         /\ \A q \in Requests \ {r} : HasAnswer(new, q) => HasAnswer(ms, q)
<1> DEFINE new == Append(ms, m)
<1>1. /\ Len(new) = Len(ms) + 1 /\ Len(ms) \in Nat /\ Len(ms) > 0 /\ new[Len(ms) + 1] = m
      /\ \A i \in 1..Len(ms) : new[i] = ms[i]
  BY Appended
<1> HIDE DEF new
<1>2. Follows(ms) => Follows(new)
  <2> SUFFICES ASSUME Follows(ms), NEW i \in 1..Len(new), new[i].role = "assistant"
               PROVE  i > 1 /\ new[i-1] = Question(new[i].of)
    BY DEF Follows
  <2>1. CASE i = Len(new)
    <3>1. i - 1 = Len(ms) /\ i - 1 \in 1..Len(ms) /\ i > 1 /\ new[i] = m
      BY <1>1, <2>1
    <3> QED
      BY <1>1, <3>1
  <2>2. CASE i # Len(new)
    <3>1. i \in 1..Len(ms) /\ new[i] = ms[i]
      BY <1>1, <2>2
    <3>2. i > 1 /\ ms[i-1] = Question(ms[i].of)
      BY <3>1 DEF Follows
    <3>3. i - 1 \in 1..Len(ms)
      BY <1>1, <3>1, <3>2
    <3> QED
      BY <1>1, <3>1, <3>2, <3>3
  <2> QED
    BY <2>1, <2>2
<1>3. \A i \in 1..Len(new) : (i \in 1..Len(ms) /\ new[i] = ms[i]) \/ new[i] = m
  BY <1>1
<1>4. Names(ms) => Names(new)
  BY <1>3 DEF Names
<1>5. \A q \in Requests \ {r} : HasAnswer(new, q) => HasAnswer(ms, q)
  BY <1>3 DEF HasAnswer
<1> QED
  BY <1>2, <1>4, <1>5 DEF new

\* The facts about a request and its reply that the cases of Written need.
LEMMA Replies ==
  ASSUME TypeOK, NEW r \in Requests
  PROVE  /\ Refusal(r) \in Messages /\ Refusal(r).of = r /\ Refusal(r).by = Refusal(r).model
         /\ Answer(r) \in Messages /\ Answer(r).of = r
         /\ provider[r] = ask[r].model => Answer(r).by = Answer(r).model
BY MessageTypes DEF Refusal, Answer

\* What a step of a request leaves in its conversation: the old history, or a
\* good continuation of it in a conversation that exists.
Continued(r) ==
  \E ms \in Seq(Messages) :
    LET old == messages[ask[r].conv] IN
    /\ messages' = [messages EXCEPT ![ask[r].conv] = ms]
    /\ ms # old => ask[r].conv \in exists /\ ~kill[r] /\ pc[r] \in InTask \cup InBody
    /\ Follows(old) => Follows(ms)
    /\ Names(old) => Names(ms)
    /\ \A q \in Requests \ {r} : HasAnswer(ms, q) => HasAnswer(old, q)
    /\ Asked(r)' => (Asked(r) /\ ms = old) \/ (ms # <<>> /\ ms[Len(ms)] = Question(r))

\* A request's step continues the history, since the question is still its last
\* message.
LEMMA StepContinues ==
  ASSUME TypeOK, RightProvider, QuestionLast, NEW r \in Requests, Step(r)
  PROVE  Continued(r)
<1> DEFINE c == ask[r].conv
           old == messages[c]
           q == Append(old, Question(r))
<1>1. /\ c \in Conversations /\ old \in Seq(Messages) /\ DOMAIN messages = Conversations
      /\ messages = [messages EXCEPT ![c] = old]
  BY AskTypes DEF TypeOK, Messages
<1>2. /\ q \in Seq(Messages) /\ q # <<>> /\ q[Len(q)] = Question(r)
      /\ Follows(old) => Follows(q)
      /\ Names(old) => Names(q)
      /\ \A p \in Requests : HasAnswer(q, p) => HasAnswer(old, p)
  BY <1>1, MessageTypes, Appended, QuestionFollows
<1>3. Written(r)
  BY StepWrites
<1>4. "task" \in InTask \cup InBody
  BY DEF InTask
<1> HIDE DEF c, old, q
<1>5. CASE messages' = messages /\ (Asked(r)' => Asked(r))
  BY <1>1, <1>5 DEF Continued, c, old
<1>6. CASE pc[r] = "task" /\ c \in exists /\ ~kill[r] /\ messages' = [messages EXCEPT ![c] = q]
  BY <1>2, <1>4, <1>6 DEF Continued, c, old
<1>7. CASE /\ pc[r] = "task" /\ ~Asked(r)' /\ c \in exists /\ ~kill[r]
           /\ messages' = [messages EXCEPT ![c] = Append(q, Refusal(r))]
  <2>1. Append(q, Refusal(r)) \in Seq(Messages)
    BY <1>2, Replies, Appended
  <2>2. /\ Follows(q) => Follows(Append(q, Refusal(r)))
        /\ Names(q) => Names(Append(q, Refusal(r)))
        /\ \A p \in Requests \ {r} : HasAnswer(Append(q, Refusal(r)), p) => HasAnswer(q, p)
    BY <1>2, Replies, ReplyFollows
  <2> QED
    BY <1>2, <1>4, <1>7, <2>1, <2>2 DEF Continued, c, old
<1>8. ASSUME NEW m \in {Refusal(r), Answer(r)}, m \in Messages, m.of = r, m.by = m.model,
             Asked(r), pc[r] \in InTask \cup InBody, ~Asked(r)',
             c \in exists, ~kill[r], messages' = [messages EXCEPT ![c] = Append(old, m)]
      PROVE  Continued(r)
  <2>1. old # <<>> /\ old[Len(old)] = Question(r)
    BY <1>8 DEF QuestionLast, c, old
  <2>2. Append(old, m) \in Seq(Messages)
    BY <1>1, <1>8, Appended
  <2>3. /\ Follows(old) => Follows(Append(old, m))
        /\ Names(old) => Names(Append(old, m))
        /\ \A p \in Requests \ {r} : HasAnswer(Append(old, m), p) => HasAnswer(old, p)
    BY <1>1, <1>8, <2>1, ReplyFollows
  <2> QED
    BY <1>8, <2>2, <2>3 DEF Continued, c, old
<1>9. \/ messages' = messages /\ (Asked(r)' => Asked(r))
      \/ pc[r] = "task" /\ c \in exists /\ ~kill[r] /\ messages' = [messages EXCEPT ![c] = q]
      \/ /\ pc[r] = "task" /\ ~Asked(r)' /\ c \in exists /\ ~kill[r]
         /\ messages' = [messages EXCEPT ![c] = Append(q, Refusal(r))]
      \/ \E m \in {Refusal(r), Answer(r)} :
           /\ m \in Messages /\ m.of = r /\ m.by = m.model
           /\ Asked(r) /\ pc[r] \in InTask \cup InBody /\ ~Asked(r)'
           /\ c \in exists /\ ~kill[r] /\ messages' = [messages EXCEPT ![c] = Append(old, m)]
  BY <1>3, Replies DEF Written, c, old, q
<1> QED
  BY <1>5, <1>6, <1>7, <1>8, <1>9

\* Nobody but the request itself writes after its question.
LEMMA QuestionKept == ASSUME TypeOK, SlotsInv, RightProvider, QuestionLast, [Next]_vars
  PROVE  QuestionLast'
<1>1. ASSUME NEW r \in Requests, Step(r) PROVE QuestionLast'
  <2>1. Continued(r) /\ Alone(r) /\ ask' = ask /\ exists' = exists /\ pc[r] \in Working
    BY <1>1, StepContinues, StepAlone, StepMoves DEF Moved
  <2>2. ASSUME NEW q \in Requests, Asked(q)', ask'[q].conv \in exists'
        PROVE  messages'[ask'[q].conv] # <<>> /\ messages'[ask'[q].conv][Len(messages'[ask'[q].conv])] = Question(q)
    <3>1. CASE q = r
      BY <2>1, <2>2, <3>1, AskTypes DEF Continued, QuestionLast, TypeOK
    <3>2. CASE q # r
      <4>1. Asked(q)
        BY <2>1, <2>2, <3>2 DEF Alone, Asked
      <4>2. ask[q].conv # ask[r].conv
        BY <2>1, <3>2, <4>1 DEF SlotsInv, Asked, Working, InTask, InBody
      <4>3. messages'[ask[q].conv] = messages[ask[q].conv]
        BY <2>1, <4>2, AskTypes DEF Continued, TypeOK
      <4> QED
        BY <2>1, <2>2, <4>1, <4>3 DEF QuestionLast
    <3> QED
      BY <3>1, <3>2
  <2> QED
    BY <2>2 DEF QuestionLast
<1>2. ASSUME NEW r \in Requests, Begin(r) PROVE QuestionLast'
  BY <1>2 DEF Begin, QuestionLast, Asked, TypeOK
<1>3. ASSUME NEW u \in Users, NEW c \in Conversations, Stop(u, c) PROVE QuestionLast'
  BY <1>3 DEF Stop, QuestionLast, Asked, TypeOK
<1>4. ASSUME NEW r \in Requests, ClientLeaves(r) PROVE QuestionLast'
  BY <1>4 DEF ClientLeaves, QuestionLast, Asked, TypeOK
<1>5. ASSUME NEW c \in Conversations, DeleteConversation(c) PROVE QuestionLast'
  BY <1>5, AskTypes DEF DeleteConversation, QuestionLast, Asked, TypeOK
<1>6. ASSUME NEW m \in Models \cup {None}, RuntimeChanges(m) PROVE QuestionLast'
  BY <1>6 DEF RuntimeChanges, QuestionLast, Asked, TypeOK
<1>7. ASSUME UNCHANGED vars PROVE QuestionLast'
  BY <1>7 DEF vars, QuestionLast, Asked
<1> QED
  BY <1>1, <1>2, <1>3, <1>4, <1>5, <1>6, <1>7 DEF Next

\* Histories stay good, and those of deleted conversations empty.
LEMMA HistoriesKept == ASSUME TypeOK, RightProvider, QuestionLast,
         AnswerFollowsQuestion, AnswerFromItsModel, DeletedStaysEmpty, [Next]_vars
  PROVE  (AnswerFollowsQuestion /\ AnswerFromItsModel /\ DeletedStaysEmpty)'
<1>1. ASSUME NEW r \in Requests, Step(r) PROVE (AnswerFollowsQuestion /\ AnswerFromItsModel /\ DeletedStaysEmpty)'
  <2>1. Continued(r) /\ exists' = exists /\ ask[r].conv \in Conversations /\ DOMAIN messages = Conversations
    BY <1>1, StepContinues, StepMoves, AskTypes DEF Moved, TypeOK
  <2>2. PICK ms \in Seq(Messages) :
          /\ messages' = [messages EXCEPT ![ask[r].conv] = ms]
          /\ ms # messages[ask[r].conv] => ask[r].conv \in exists
          /\ Follows(messages[ask[r].conv]) => Follows(ms)
          /\ Names(messages[ask[r].conv]) => Names(ms)
    BY <2>1 DEF Continued
  <2>3. \A d \in Conversations : Follows(messages[d]) /\ Names(messages[d])
    BY DEF AnswerFollowsQuestion, AnswerFromItsModel, Follows, Names
  <2>4. \A d \in Conversations : Follows(messages'[d]) /\ Names(messages'[d])
    BY <2>1, <2>2, <2>3
  <2>5. DeletedStaysEmpty'
    BY <2>1, <2>2 DEF DeletedStaysEmpty
  <2> QED
    BY <2>4, <2>5 DEF AnswerFollowsQuestion, AnswerFromItsModel, Follows, Names
<1>2. ASSUME NEW r \in Requests, Begin(r) PROVE (AnswerFollowsQuestion /\ AnswerFromItsModel /\ DeletedStaysEmpty)'
  BY <1>2 DEF Begin, AnswerFollowsQuestion, AnswerFromItsModel, DeletedStaysEmpty
<1>3. ASSUME NEW u \in Users, NEW c \in Conversations, Stop(u, c) PROVE (AnswerFollowsQuestion /\ AnswerFromItsModel /\ DeletedStaysEmpty)'
  BY <1>3 DEF Stop, AnswerFollowsQuestion, AnswerFromItsModel, DeletedStaysEmpty
<1>4. ASSUME NEW r \in Requests, ClientLeaves(r) PROVE (AnswerFollowsQuestion /\ AnswerFromItsModel /\ DeletedStaysEmpty)'
  BY <1>4 DEF ClientLeaves, AnswerFollowsQuestion, AnswerFromItsModel, DeletedStaysEmpty
<1>5. ASSUME NEW c \in Conversations, DeleteConversation(c) PROVE (AnswerFollowsQuestion /\ AnswerFromItsModel /\ DeletedStaysEmpty)'
  <2>1. /\ exists' = exists \ {c}
        /\ \A d \in Conversations : messages'[d] = IF d = c THEN <<>> ELSE messages[d]
    BY <1>5 DEF DeleteConversation, TypeOK
  <2>2. /\ \A d \in Conversations \ {c} : messages'[d] = messages[d]
        /\ messages'[c] = <<>> /\ 1..Len(messages'[c]) = {}
    BY <2>1
  <2>3. AnswerFollowsQuestion'
    BY <2>2 DEF AnswerFollowsQuestion
  <2>4. AnswerFromItsModel'
    BY <2>2 DEF AnswerFromItsModel
  <2>5. DeletedStaysEmpty'
    BY <2>1 DEF DeletedStaysEmpty
  <2> QED
    BY <2>3, <2>4, <2>5
<1>6. ASSUME NEW m \in Models \cup {None}, RuntimeChanges(m) PROVE (AnswerFollowsQuestion /\ AnswerFromItsModel /\ DeletedStaysEmpty)'
  BY <1>6 DEF RuntimeChanges, AnswerFollowsQuestion, AnswerFromItsModel, DeletedStaysEmpty
<1>7. ASSUME UNCHANGED vars PROVE (AnswerFollowsQuestion /\ AnswerFromItsModel /\ DeletedStaysEmpty)'
  BY <1>7 DEF vars, AnswerFollowsQuestion, AnswerFromItsModel, DeletedStaysEmpty
<1> QED
  BY <1>1, <1>2, <1>3, <1>4, <1>5, <1>6, <1>7 DEF Next

\* A stopped request stores nothing, and nobody stores an answer for another.
LEMMA StoppedStoresNothing == ASSUME TypeOK, StopReaches, RightProvider, QuestionLast, [Next]_vars
  PROVE  \A q \in Requests : cancelled[q] /\ ~Answered(q) => ~Answered(q)'
<1>1. ASSUME NEW r \in Requests, Step(r) PROVE \A q \in Requests : cancelled[q] /\ ~Answered(q) => ~Answered(q)'
  <2>1. Continued(r) /\ ask' = ask /\ \A q \in Requests : ask[q].conv \in Conversations
    BY <1>1, StepContinues, StepMoves, AskTypes DEF Moved
  <2>2. PICK ms \in Seq(Messages) :
          /\ messages' = [messages EXCEPT ![ask[r].conv] = ms]
          /\ ms # messages[ask[r].conv] => ~kill[r] /\ pc[r] \in InTask \cup InBody
          /\ \A q \in Requests \ {r} : HasAnswer(ms, q) => HasAnswer(messages[ask[r].conv], q)
    BY <2>1 DEF Continued
  <2>3. ASSUME NEW q \in Requests, cancelled[q], HasAnswer(messages'[ask[q].conv], q)
        PROVE  HasAnswer(messages[ask[q].conv], q)
    <3>1. \A c \in Conversations : messages'[c] = IF c = ask[r].conv THEN ms ELSE messages[c]
      BY <2>1, <2>2 DEF TypeOK
    <3>2. CASE q = r
      BY <2>1, <2>2, <2>3, <3>1, <3>2 DEF StopReaches
    <3>3. CASE q # r
      BY <2>1, <2>2, <2>3, <3>1, <3>3
    <3> QED
      BY <3>2, <3>3
  <2> QED
    BY <2>1, <2>3 DEF Answered, HasAnswer
<1>2. ASSUME NEW r \in Requests, Begin(r) PROVE \A q \in Requests : cancelled[q] /\ ~Answered(q) => ~Answered(q)'
  BY <1>2 DEF Begin, Answered
<1>3. ASSUME NEW u \in Users, NEW c \in Conversations, Stop(u, c) PROVE \A q \in Requests : cancelled[q] /\ ~Answered(q) => ~Answered(q)'
  BY <1>3 DEF Stop, Answered
<1>4. ASSUME NEW r \in Requests, ClientLeaves(r) PROVE \A q \in Requests : cancelled[q] /\ ~Answered(q) => ~Answered(q)'
  BY <1>4 DEF ClientLeaves, Answered
<1>5. ASSUME NEW c \in Conversations, DeleteConversation(c) PROVE \A q \in Requests : cancelled[q] /\ ~Answered(q) => ~Answered(q)'
  <2>1. ask' = ask /\ \A q \in Requests : ask[q].conv \in Conversations
    BY <1>5, AskTypes DEF DeleteConversation
  <2>2. \A d \in Conversations : messages'[d] = IF d = c THEN <<>> ELSE messages[d]
    BY <1>5 DEF DeleteConversation, TypeOK
  <2> QED
    BY <2>1, <2>2 DEF Answered
<1>6. ASSUME NEW m \in Models \cup {None}, RuntimeChanges(m) PROVE \A q \in Requests : cancelled[q] /\ ~Answered(q) => ~Answered(q)'
  BY <1>6 DEF RuntimeChanges, Answered
<1>7. ASSUME UNCHANGED vars PROVE \A q \in Requests : cancelled[q] /\ ~Answered(q) => ~Answered(q)'
  BY <1>7 DEF vars, Answered
<1> QED
  BY <1>1, <1>2, <1>3, <1>4, <1>5, <1>6, <1>7, SMTT(30) DEF Next

-------------------------------------------------------------------------------

\* The invariant of chat completions holds in every state.
THEOREM GenerationInvariance == Spec => []IInv
<1>1. IInv /\ [Next]_vars => IInv'
  BY TypesKept, SlotsKept, FewKept, StopKept, ProviderKept, QuestionKept, HistoriesKept DEF IInv
<1> QED
  BY Initially, <1>1, PTL DEF Spec

\* No interleaving starts a second response of a conversation or one too many.
THEOREM WorkAlwaysHoldsSlot == Spec => []WorkHoldsSlot
<1>1. IInv => WorkHoldsSlot
  BY DEF IInv, SlotsInv, FewSlots, WorkHoldsSlot
<1> QED
  BY GenerationInvariance, <1>1, PTL

\* A slot is taken only by the request that was asked of its conversation, and only
\* while that request is at work or its stream was dropped: whatever else ends a
\* response has given the slot back.
THEOREM SlotsAccounted == Spec => []SlotsInv
<1>1. IInv => SlotsInv
  BY DEF IInv
<1> QED
  BY GenerationInvariance, <1>1, PTL

\* Every stored answer directly follows its question.
THEOREM AnswersFollow == Spec => []AnswerFollowsQuestion
<1>1. IInv => AnswerFollowsQuestion
  BY DEF IInv
<1> QED
  BY GenerationInvariance, <1>1, PTL

\* Every stored answer names the model that wrote it.
THEOREM AnswersNamed == Spec => []AnswerFromItsModel
<1>1. IInv => AnswerFromItsModel
  BY DEF IInv
<1> QED
  BY GenerationInvariance, <1>1, PTL

\* A deleted conversation stays empty.
THEOREM DeletedEmpty == Spec => []DeletedStaysEmpty
<1>1. IInv => DeletedStaysEmpty
  BY DEF IInv
<1> QED
  BY GenerationInvariance, <1>1, PTL

\* The answer of a stopped response is never stored.
THEOREM StopAlwaysFinal == Spec => StopIsFinal
<1>1. IInv /\ [Next]_vars => [\A r \in Requests : cancelled[r] /\ ~Answered(r) => ~Answered(r)']_vars
  BY StoppedStoresNothing DEF IInv
<1> QED
  BY GenerationInvariance, <1>1, PTL DEF Spec, StopIsFinal

===============================================================================
