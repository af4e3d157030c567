------------------------ MODULE EngineExchangeProofs ------------------------
(***************************************************************************)
(* For any set of threads and any number of requests and interruptions:    *)
(* an edit is applied at most once, however often its author sends it      *)
(* again; what a call returns is the truth about its own request; and an   *)
(* engine that ends had saved what it applied.                             *)
(*                                                                         *)
(* The first holds because all copies of an edit name one revision (IInv). *)
(* The others hold because a sequence number is used once, so that what    *)
(* carries the number a call waits for was made for it, whoever read it    *)
(* off the pipe, and because nothing is asked after SHUTDOWN (XInv).       *)
(***************************************************************************)
EXTENDS EngineExchange, SequenceTheorems, TLAPS

IsAsk(ask) == ask = Ask(ask.type, ask.arg, ask.intent) /\ ask.intent \in Nat

\* An edit that was sent carries its author's count of edits; one that was not
\* sent yet, or that could not be, may be ahead of it by one.
EditIsNewest(ask, intents) == ask.type = "edit" => ask.intent \in {intents, intents + 1}

IsCall(c) ==
    /\ c \in [at : {c.at}, ask : {c.ask}, seq : {c.seq}, known : {c.known},
              intents : {c.intents}, result : {c.result}]
    /\ IsAsk(c.ask) /\ IsAsk(c.result.ask) /\ c.intents \in Nat
    /\ EditIsNewest(c.ask, c.intents) /\ EditIsNewest(c.result.ask, c.intents)
    /\ c.at # "idle" => c.result.ask.type # "edit"

EngineOK ==
    /\ engine = [run |-> engine.run, welcomed |-> engine.welcomed, ledger |-> engine.ledger,
                 durable |-> engine.durable, failed |-> engine.failed]
    /\ engine.ledger \in Seq(Threads \X Nat)

RequestsOK ==
    /\ \E S : requests \in Seq(S)
    /\ \A j \in DOMAIN requests : IsAsk(requests[j].ask) /\ requests[j].by \in Threads

CallsOK ==
    /\ calls = [t \in Threads |-> calls[t]]
    /\ \A t \in Threads : IsCall(calls[t])

\* Edit k of thread t names revision a: where it was applied, on its way, in
\* its author's hands, or in the memory of a call that failed.
Applied(t, k, a) == a \in DOMAIN engine.ledger /\ engine.ledger[a] = <<t, k>>
Requested(t, k, a) ==
    \E j \in DOMAIN requests : requests[j].by = t /\ requests[j].ask = Ask("edit", a, k)
Held(t, k, a) == Ask("edit", a, k) \in {calls[t].ask, calls[t].result.ask}
Means(t, k, a) == Applied(t, k, a) \/ Requested(t, k, a) \/ Held(t, k, a)

SentIsCounted ==
    \A t \in Threads, k \in Nat : \A a :
        Applied(t, k, a) \/ Requested(t, k, a) => k <= calls[t].intents

OneRevision ==
    \A t \in Threads, k \in Nat : \A a, b : Means(t, k, a) /\ Means(t, k, b) => a = b

IInv == EngineOK /\ RequestsOK /\ CallsOK /\ SentIsCounted /\ OneRevision

-----------------------------------------------------------------------------
(* Steps that say nothing new.                                              *)

LEMMA NothingNew ==
  ASSUME IInv, EngineOK', RequestsOK', CallsOK', SentIsCounted',
         \A t \in Threads, k \in Nat : \A a : Means(t, k, a)' => Means(t, k, a)
  PROVE  IInv'
  <1>1. OneRevision'
    <2> SUFFICES ASSUME NEW t \in Threads, NEW k \in Nat, NEW a, NEW b,
                        Means(t, k, a)', Means(t, k, b)'
                 PROVE  a = b
      BY Zenon DEF OneRevision
    <2>1. Means(t, k, a) /\ Means(t, k, b)
      OBVIOUS
    <2> QED BY <2>1 DEF IInv, OneRevision
  <1> QED BY <1>1 DEF IInv

\* The first request is taken; the others stay as they are.
LEMMA TakenRequest ==
  ASSUME RequestsOK, requests # <<>>, requests' = Tail(requests)
  PROVE  /\ RequestsOK'
         /\ 1 \in DOMAIN requests /\ Head(requests) = requests[1]
         /\ \A t, k, a : Requested(t, k, a)' => Requested(t, k, a)
  <1>1. PICK S : requests \in Seq(S)
    BY DEF RequestsOK
  <1>2. /\ Tail(requests) \in Seq(S) /\ Len(Tail(requests)) = Len(requests) - 1
        /\ \A j \in 1 .. Len(Tail(requests)) : Tail(requests)[j] = requests[j + 1]
        /\ Head(requests) = requests[1]
    BY <1>1, HeadTailProperties
  <1>3. /\ DOMAIN requests = 1 .. Len(requests) /\ Len(requests) \in Nat
        /\ DOMAIN Tail(requests) = 1 .. Len(requests) - 1
    BY <1>1, <1>2
  <1>4. 1 \in DOMAIN requests
    BY <1>1, <1>3
  <1>5. \A j \in DOMAIN requests' : j + 1 \in DOMAIN requests /\ requests'[j] = requests[j + 1]
    BY <1>2, <1>3
  <1>6. RequestsOK'
    BY <1>2, <1>5 DEF RequestsOK
  <1>7. \A t, k, a : Requested(t, k, a)' => Requested(t, k, a)
    BY <1>5, Zenon DEF Requested
  <1> QED BY <1>2, <1>4, <1>6, <1>7

LEMMA NoRequests == requests' = <<>> => RequestsOK' /\ \A t, k, a : ~Requested(t, k, a)'
  <1> SUFFICES ASSUME requests' = <<>> PROVE RequestsOK' /\ \A t, k, a : ~Requested(t, k, a)'
    OBVIOUS
  <1>1. requests' \in Seq({}) /\ DOMAIN requests' = {}
    OBVIOUS
  <1> QED BY <1>1 DEF RequestsOK, Requested

\* The requests that wait are dropped, taken one by one, or left alone.
RequestsShrink ==
    \/ requests' = requests \/ requests' = <<>>
    \/ requests # <<>> /\ requests' = Tail(requests)

LEMMA ShrunkRequests ==
  ASSUME IInv, RequestsShrink
  PROVE  RequestsOK' /\ \A t, k, a : Requested(t, k, a)' => Requested(t, k, a)
  <1>1. CASE requests' = requests
    BY <1>1 DEF IInv, RequestsOK, Requested
  <1>2. CASE requests' = <<>>
    BY <1>2, NoRequests
  <1>3. CASE requests # <<>> /\ requests' = Tail(requests)
    BY <1>3, TakenRequest DEF IInv
  <1> QED BY <1>1, <1>2, <1>3 DEF RequestsShrink

\* Neither the ledger nor the callers: the engine's other steps, the readers.
LEMMA EngineStepInv ==
  ASSUME IInv, RequestsShrink, calls' = calls, EngineOK', engine'.ledger = engine.ledger
  PROVE  IInv'
  <1>1. RequestsOK' /\ \A t, k, a : Requested(t, k, a)' => Requested(t, k, a)
    BY ShrunkRequests
  <1>2. \A t, k, a : Applied(t, k, a)' <=> Applied(t, k, a)
    BY DEF Applied
  <1>3. \A t, k, a : Held(t, k, a)' <=> Held(t, k, a)
    BY DEF Held
  <1>4. CallsOK'
    BY DEF IInv, CallsOK
  <1>5. SentIsCounted'
    BY <1>1, <1>2 DEF IInv, SentIsCounted
  <1>6. \A t \in Threads, k \in Nat : \A a : Means(t, k, a)' => Means(t, k, a)
    BY <1>1, <1>2, <1>3, Zenon DEF Means
  <1> QED BY <1>1, <1>4, <1>5, <1>6, NothingNew

\* One call goes on and says nothing new.
LEMMA CallStepInv ==
  ASSUME IInv, RequestsShrink, EngineOK', engine'.ledger = engine.ledger,
         NEW t \in Threads, NEW c, calls' = [calls EXCEPT ![t] = c], IsCall(c),
         c.intents = calls[t].intents,
         \A ask \in {c.ask, c.result.ask} :
             ask.type = "edit" => ask \in {calls[t].ask, calls[t].result.ask}
  PROVE  IInv'
  <1>1. RequestsOK' /\ \A u, k, a : Requested(u, k, a)' => Requested(u, k, a)
    BY ShrunkRequests
  <1>2. \A u, k, a : Applied(u, k, a)' <=> Applied(u, k, a)
    BY DEF Applied
  <1>3. /\ calls'[t] = c /\ \A u \in Threads \ {t} : calls'[u] = calls[u]
        /\ CallsOK'
    BY DEF IInv, CallsOK
  <1>4. \A u \in Threads : calls'[u].intents = calls[u].intents
    BY <1>3
  <1>5. \A u \in Threads, k \in Nat : \A a : Held(u, k, a)' => Held(u, k, a)
    <2> SUFFICES ASSUME NEW u \in Threads, NEW k \in Nat, NEW a, Held(u, k, a)'
                 PROVE  Held(u, k, a)
      BY Zenon
    <2>1. CASE u = t
      <3>1. Ask("edit", a, k).type = "edit"
        BY DEF Ask
      <3> QED BY <2>1, <3>1, <1>3 DEF Held
    <2>2. CASE u # t
      BY <2>2, <1>3 DEF Held
    <2> QED BY <2>1, <2>2
  <1>6. SentIsCounted'
    BY <1>1, <1>2, <1>4 DEF IInv, SentIsCounted
  <1>7. \A u \in Threads, k \in Nat : \A a : Means(u, k, a)' => Means(u, k, a)
    BY <1>1, <1>2, <1>5, Zenon DEF Means
  <1> QED BY <1>1, <1>3, <1>6, <1>7, NothingNew

-----------------------------------------------------------------------------
(* The engine and the readers.                                              *)

LEMMA ServeElseInv ==
  ASSUME IInv,
         Greet \/ TellState \/ RequestSave \/ PollSave \/ SaveInBackground \/ BeginShutdown
           \/ SeeEndOfInput \/ FailToAnswer \/ FinishShutdown \/ Exit \/ Crash
  PROVE  IInv'
  <1> USE DEF Takes, Ack, Reject, Answered, engineSide, readerSide, callerSide
  <1>0. EngineOK
    BY DEF IInv
  <1>1. CASE Greet
    <2>1. RequestsShrink /\ calls' = calls
      BY <1>1 DEF Greet, RequestsShrink
    <2>2. EngineOK' /\ engine'.ledger = engine.ledger
      BY <1>0, <1>1 DEF Greet, EngineOK
    <2> QED BY <2>1, <2>2, EngineStepInv
  <1>2. CASE TellState \/ RequestSave \/ PollSave
    <2>1. RequestsShrink /\ calls' = calls /\ engine' = engine
      BY <1>2 DEF TellState, RequestSave, PollSave, RequestsShrink
    <2>2. EngineOK' /\ engine'.ledger = engine.ledger
      BY <1>0, <2>1 DEF EngineOK
    <2> QED BY <2>1, <2>2, EngineStepInv
  <1>3. CASE SaveInBackground
    <2>1. requests' = requests /\ calls' = calls
      BY <1>3 DEF SaveInBackground
    <2>2. PICK r : \/ engine' = [engine EXCEPT !.durable = r, !.failed = 0]
                   \/ engine' = [engine EXCEPT !.failed = r]
      BY <1>3 DEF SaveInBackground
    <2>3. EngineOK' /\ engine'.ledger = engine.ledger
      BY <1>0, <2>2 DEF EngineOK
    <2> QED BY <2>1, <2>3, EngineStepInv DEF RequestsShrink
  <1>4. CASE BeginShutdown \/ SeeEndOfInput \/ FailToAnswer \/ FinishShutdown \/ Exit \/ Crash
    <2>1. RequestsShrink /\ calls' = calls
      BY <1>4 DEF BeginShutdown, SeeEndOfInput, FailToAnswer, FinishShutdown, Exit, Crash,
                  RequestsShrink
    <2>2. PICK r : engine' = [engine EXCEPT !.run = r]
      BY <1>4 DEF BeginShutdown, SeeEndOfInput, FailToAnswer, FinishShutdown, Exit, Crash
    <2>3. EngineOK' /\ engine'.ledger = engine.ledger
      BY <1>0, <2>2 DEF EngineOK
    <2> QED BY <2>1, <2>3, EngineStepInv
  <1> QED BY <1>1, <1>2, <1>3, <1>4

\* The edit is entered at the place of the revision that it names.
LEMMA EditInv == ASSUME IInv, Edit PROVE IInv'
  <1> USE DEF Edit, Takes, Ack, Reject, Answered, engineSide, readerSide, callerSide
  <1> DEFINE head == Head(requests)  ledger == engine.ledger
  <1>1. requests # <<>> /\ requests' = Tail(requests) /\ calls' = calls /\ head.ask.type = "edit"
    OBVIOUS
  <1>2. CASE head.ask.arg # Revision
    <2>1. engine' = engine
      BY <1>2
    <2>2. EngineOK' /\ engine'.ledger = engine.ledger
      BY <2>1 DEF IInv, EngineOK
    <2> QED BY <1>1, <2>2, EngineStepInv DEF RequestsShrink
  <1>3. CASE head.ask.arg = Revision
    <2>0. /\ head.ask.arg = Len(ledger) + 1
          /\ engine' = [engine EXCEPT !.ledger = Append(@, <<head.by, head.ask.intent>>)]
      BY <1>3 DEF Revision
    <2>1. /\ RequestsOK' /\ 1 \in DOMAIN requests /\ head = requests[1]
          /\ \A t, k, a : Requested(t, k, a)' => Requested(t, k, a)
      BY <1>1, TakenRequest DEF IInv
    <2>2. /\ head.ask = Ask("edit", Len(ledger) + 1, head.ask.intent)
          /\ head.ask.intent \in Nat /\ head.by \in Threads
      BY <1>1, <2>0, <2>1 DEF IInv, RequestsOK, IsAsk
    <2>3. Requested(head.by, head.ask.intent, Len(ledger) + 1)
      BY <2>1, <2>2 DEF Requested
    <2>4. engine'.ledger = Append(ledger, <<head.by, head.ask.intent>>) /\ EngineOK'
      BY <2>0, <2>2, AppendProperties DEF IInv, EngineOK
    <2>5. /\ DOMAIN engine'.ledger = 1 .. Len(ledger) + 1
          /\ \A a \in DOMAIN ledger : engine'.ledger[a] = ledger[a]
          /\ engine'.ledger[Len(ledger) + 1] = <<head.by, head.ask.intent>>
          /\ DOMAIN ledger = 1 .. Len(ledger) /\ Len(ledger) \in Nat
      BY <2>2, <2>4, AppendProperties DEF IInv, EngineOK
    <2>6. \A t, k, a : Applied(t, k, a)' => Applied(t, k, a) \/ Requested(t, k, a)
      <3> SUFFICES ASSUME NEW t, NEW k, NEW a, Applied(t, k, a)'
                   PROVE  Applied(t, k, a) \/ Requested(t, k, a)
        BY Zenon
      <3>1. a \in DOMAIN engine'.ledger /\ engine'.ledger[a] = <<t, k>>
        BY DEF Applied
      <3>2. CASE a \in DOMAIN ledger
        BY <3>1, <3>2, <2>5 DEF Applied
      <3>3. CASE a = Len(ledger) + 1
        <4>1. t = head.by /\ k = head.ask.intent
          BY <3>1, <3>3, <2>5
        <4> QED BY <4>1, <3>3, <2>3
      <3> QED BY <3>1, <3>2, <3>3, <2>5
    <2>7. CallsOK' /\ \A t, k, a : Held(t, k, a)' <=> Held(t, k, a)
      BY <1>1 DEF IInv, CallsOK, Held
    <2>8. SentIsCounted'
      BY <1>1, <2>1, <2>6 DEF IInv, SentIsCounted
    <2>9. \A t \in Threads, k \in Nat : \A a : Means(t, k, a)' => Means(t, k, a)
      BY <2>1, <2>6, <2>7, Zenon DEF Means
    <2> QED BY <2>1, <2>4, <2>7, <2>8, <2>9, NothingNew
  <1> QED BY <1>2, <1>3

LEMMA ReaderInv == ASSUME IInv, NEW k, ReaderStep(k) PROVE IInv'
  <1>1. engine' = engine /\ requests' = requests /\ calls' = calls
    BY DEF ReaderStep, StartReading, BlockInRead, ReadField, ReadEnd, engineSide, callerSide
  <1>2. EngineOK' /\ engine'.ledger = engine.ledger
    BY <1>1 DEF IInv, EngineOK
  <1> QED BY <1>1, <1>2, EngineStepInv DEF RequestsShrink

-----------------------------------------------------------------------------
(* The callers.                                                             *)

\* What a call leaves alone or drops.
LEMMA CallKeepsEngine ==
  ASSUME IInv, Kill \/ UNCHANGED <<engine, requests>>
  PROVE  RequestsShrink /\ EngineOK' /\ engine'.ledger = engine.ledger
  <1>1. RequestsShrink
    BY DEF Kill, RequestsShrink
  <1>2. EngineOK' /\ engine'.ledger = engine.ledger
    BY DEF IInv, EngineOK, Kill
  <1> QED BY <1>1, <1>2

LEMMA CallIsRecord ==
  ASSUME IInv, NEW t \in Threads
  PROVE  IsCall(calls[t]) /\ DOMAIN calls = Threads
  BY DEF IInv, CallsOK

LEMMA NoAskIsAsk == IsAsk(NoAsk) /\ NoAsk.type = "none"
  BY DEF IsAsk, NoAsk, Ask

\* A call that returns, with or without an answer.
LEMMA ReturnsInv ==
  ASSUME IInv, NEW t \in Threads, NEW ok, NEW value, Returns(t, ok, value),
         Kill \/ UNCHANGED <<engine, requests>>
  PROVE  IInv'
  <1> DEFINE ask == calls[t].ask
             result == IF (ok /\ ask.type \in {"save", "poll", "shutdown"}) \/ ask.type = "edit"
                       THEN Outcome(ask, ok, value) ELSE Outcome(NoAsk, FALSE, 0)
             known == IF ok /\ ask.type \in {"state", "edit"} THEN value ELSE calls[t].known
             c == [calls[t] EXCEPT !.at = "idle", !.ask = NoAsk, !.seq = 0, !.result = result,
                                   !.known = known]
  <1>1. IsCall(calls[t])
    BY CallIsRecord
  <1>2. calls' = [calls EXCEPT ![t] = c]
    BY DEF Returns
  <1>3. result.ask = ask \/ result.ask = NoAsk
    <2>1. Outcome(ask, ok, value).ask = ask /\ Outcome(NoAsk, FALSE, 0).ask = NoAsk
      BY DEF Outcome
    <2>2. result = Outcome(ask, ok, value) \/ result = Outcome(NoAsk, FALSE, 0)
      BY Zenon
    <2> QED BY ONLY <2>1, <2>2, Zenon
  <1> HIDE DEF result, known
  <1>4. /\ c.at = "idle" /\ c.ask = NoAsk /\ c.intents = calls[t].intents /\ c.result = result
        /\ c \in [at : {c.at}, ask : {c.ask}, seq : {c.seq}, known : {c.known},
                  intents : {c.intents}, result : {c.result}]
    BY <1>1 DEF IsCall
  <1> HIDE DEF c
  <1>5. IsCall(c)
    BY <1>1, <1>3, <1>4, NoAskIsAsk DEF IsCall, EditIsNewest
  <1>6. \A a \in {c.ask, c.result.ask} :
            a.type = "edit" => a \in {calls[t].ask, calls[t].result.ask}
    BY <1>3, <1>4, NoAskIsAsk
  <1> QED BY <1>2, <1>4, <1>5, <1>6, CallKeepsEngine, CallStepInv

LEMMA FailsInv ==
  ASSUME IInv, NEW t \in Threads, NEW kill, Fails(t, kill)
  PROVE  IInv'
  <1>1. Returns(t, FALSE, 0) /\ (Kill \/ UNCHANGED <<engine, requests>>)
    BY DEF Fails, engineSide
  <1> QED BY <1>1, ReturnsInv

\* A call that goes on with the request it has.
LEMMA GoesOnInv ==
  ASSUME IInv, NEW t \in Threads, NEW at, calls' = [calls EXCEPT ![t].at = at],
         calls[t].at # "idle",
         UNCHANGED <<engine, requests>>
  PROVE  IInv'
  <1> DEFINE c == [calls[t] EXCEPT !.at = at]
  <1>1. IsCall(calls[t])
    BY CallIsRecord
  <1>2. calls' = [calls EXCEPT ![t] = c]
    OBVIOUS
  <1>3. /\ c.ask = calls[t].ask /\ c.result = calls[t].result /\ c.intents = calls[t].intents
        /\ c \in [at : {c.at}, ask : {c.ask}, seq : {c.seq}, known : {c.known},
                  intents : {c.intents}, result : {c.result}]
    BY <1>1 DEF IsCall
  <1> HIDE DEF c
  <1>4. IsCall(c)
    BY <1>1, <1>3 DEF IsCall
  <1>5. \A a \in {c.ask, c.result.ask} :
            a.type = "edit" => a \in {calls[t].ask, calls[t].result.ask}
    BY <1>3
  <1> QED BY <1>2, <1>3, <1>4, <1>5, CallKeepsEngine, CallStepInv

\* A call that begins and asks for something else than a new edit.
LEMMA CallsInv ==
  ASSUME IInv, NEW t \in Threads, NEW ask, IsAsk(ask), Calls(t, ask),
         ask.type = "edit" => ask = calls[t].result.ask
  PROVE  IInv'
  <1> DEFINE result == Outcome(NoAsk, FALSE, 0)
             c == [calls[t] EXCEPT !.at = "calling", !.ask = ask, !.result = result]
  <1>1. IsCall(calls[t])
    BY CallIsRecord
  <1>2. calls' = [calls EXCEPT ![t] = c] /\ UNCHANGED <<engine, requests>>
    BY DEF Calls, engineSide
  <1>3. result.ask = NoAsk
    BY DEF Outcome
  <1> HIDE DEF result
  <1>4. /\ c.ask = ask /\ c.intents = calls[t].intents /\ c.result = result
        /\ c \in [at : {c.at}, ask : {c.ask}, seq : {c.seq}, known : {c.known},
                  intents : {c.intents}, result : {c.result}]
    BY <1>1 DEF IsCall
  <1> HIDE DEF c
  <1>5. IsCall(c)
    BY <1>1, <1>3, <1>4, NoAskIsAsk DEF IsCall, EditIsNewest
  <1>6. \A a \in {c.ask, c.result.ask} :
            a.type = "edit" => a \in {calls[t].ask, calls[t].result.ask}
    BY <1>3, <1>4, NoAskIsAsk
  <1> QED BY <1>2, <1>4, <1>5, <1>6, CallKeepsEngine, CallStepInv

\* A new edit: no other copy of it is anywhere.
LEMMA SetTempoInv == ASSUME IInv, NEW t \in Threads, SetTempo(t) PROVE IInv'
  <1> DEFINE n == calls[t].intents
             ask == Ask("edit", calls[t].known, n + 1)
             result == Outcome(NoAsk, FALSE, 0)
             c == [calls[t] EXCEPT !.at = "calling", !.ask = ask, !.result = result]
  <1>1. IsCall(calls[t]) /\ n \in Nat
    BY CallIsRecord DEF IsCall
  <1>2. calls' = [calls EXCEPT ![t] = c] /\ UNCHANGED <<engine, requests>>
    BY DEF SetTempo, Calls, engineSide
  <1>3. result.ask = NoAsk
    BY DEF Outcome
  <1>4. IsAsk(ask) /\ ask.type = "edit" /\ ask.intent = n + 1
    BY <1>1 DEF IsAsk, Ask
  <1> HIDE DEF result, ask
  <1>5. /\ c.ask = ask /\ c.intents = n /\ c.result = result
        /\ c \in [at : {c.at}, ask : {c.ask}, seq : {c.seq}, known : {c.known},
                  intents : {c.intents}, result : {c.result}]
    BY <1>1 DEF IsCall
  <1> HIDE DEF c
  <1>6. IsCall(c)
    BY <1>1, <1>3, <1>4, <1>5, NoAskIsAsk DEF IsCall, EditIsNewest
  <1>7. /\ calls'[t] = c /\ \A u \in Threads \ {t} : calls'[u] = calls[u]
        /\ CallsOK'
    BY <1>2, <1>6 DEF IInv, CallsOK
  <1>8. EngineOK' /\ RequestsOK'
    BY <1>2 DEF IInv, EngineOK, RequestsOK
  <1>9. /\ \A u, k, a : Applied(u, k, a)' <=> Applied(u, k, a)
        /\ \A u, k, a : Requested(u, k, a)' <=> Requested(u, k, a)
    BY <1>2 DEF Applied, Requested
  <1>10. SentIsCounted'
    <2>1. \A u \in Threads : calls'[u].intents = calls[u].intents
      BY <1>5, <1>7
    <2> QED BY <2>1, <1>9 DEF IInv, SentIsCounted
  <1>11. OneRevision'
    <2> SUFFICES ASSUME NEW u \in Threads, NEW k \in Nat, NEW a, NEW b,
                        Means(u, k, a)', Means(u, k, b)'
                 PROVE  a = b
      BY Zenon DEF OneRevision
    <2>1. CASE u # t
      <3>1. \A x : Held(u, k, x)' <=> Held(u, k, x)
        BY <2>1, <1>7 DEF Held
      <3>2. Means(u, k, a) /\ Means(u, k, b)
        BY <3>1, <1>9, Zenon DEF Means
      <3> QED BY <3>2 DEF IInv, OneRevision
    <2>2. CASE u = t
      <3>1. ASSUME NEW x, Held(t, k, x)' PROVE Ask("edit", x, k) = ask
        <4>1. Ask("edit", x, k).type = "edit"
          BY DEF Ask
        <4> QED BY <4>1, <3>1, <1>3, <1>5, <1>7, NoAskIsAsk DEF Held
      <3>2. ASSUME NEW x, Held(t, k, x)' PROVE k = n + 1 /\ x = ask.arg
        <4>1. Ask("edit", x, k).intent = k /\ Ask("edit", x, k).arg = x
          BY DEF Ask
        <4> QED BY <4>1, <3>1, <3>2, <1>4
      <3>3. \A x : Applied(t, k, x) \/ Requested(t, k, x) => k <= n
        BY DEF IInv, SentIsCounted
      <3>4. \A x : Means(t, k, x)' => Applied(t, k, x) \/ Requested(t, k, x) \/ Held(t, k, x)'
        BY <1>9, Zenon DEF Means
      <3>5. CASE k <= n
        <4>1. ~(k = n + 1)
          BY <3>5, <1>1
        <4>2. Means(t, k, a) /\ Means(t, k, b)
          BY <4>1, <3>2, <3>4, <2>2, Zenon DEF Means
        <4> QED BY <4>2 DEF IInv, OneRevision
      <3>6. CASE ~(k <= n)
        <4>1. Held(t, k, a)' /\ Held(t, k, b)'
          BY <3>3, <3>4, <3>6, <2>2, Zenon
        <4> QED BY <4>1, <3>2
      <3> QED BY <3>5, <3>6
    <2> QED BY <2>1, <2>2
  <1> QED BY <1>7, <1>8, <1>10, <1>11 DEF IInv

\* An edit is sent: the request says what its author's call says.
LEMMA SubmitInv ==
  ASSUME IInv, NEW t \in Threads, NEW seq, NEW at, Submit(t, seq, at), engine' = engine,
         calls[t].at # "idle"
  PROVE  IInv'
  <1> DEFINE ask == calls[t].ask
             n == IF ask.type = "edit" THEN ask.intent ELSE calls[t].intents
             c == [calls[t] EXCEPT !.at = at, !.seq = seq, !.intents = n]
             new == [seq |-> seq, ask |-> ask, by |-> t]
  <1>1. IsCall(calls[t])
    BY CallIsRecord
  <1>2. calls' = [calls EXCEPT ![t] = c] /\ requests' = Append(requests, new)
    BY DEF Submit
  <1>3. n \in Nat /\ calls[t].intents <= n /\ EditIsNewest(ask, n)
        /\ (ask.type = "edit" => ask.intent = n)
    BY <1>1 DEF IsCall, IsAsk, EditIsNewest
  <1> HIDE DEF n
  <1>4. /\ c.ask = ask /\ c.intents = n /\ c.result = calls[t].result
        /\ c \in [at : {c.at}, ask : {c.ask}, seq : {c.seq}, known : {c.known},
                  intents : {c.intents}, result : {c.result}]
    BY <1>1 DEF IsCall
  <1> HIDE DEF c
  <1>5. IsCall(c)
    <2>1. calls[t].result.ask.type # "edit" /\ IsAsk(ask) /\ IsAsk(calls[t].result.ask)
      BY <1>1 DEF IsCall
    <2> QED BY <2>1, <1>3, <1>4 DEF IsCall, EditIsNewest
  <1>6. /\ calls'[t] = c /\ \A u \in Threads \ {t} : calls'[u] = calls[u]
        /\ CallsOK'
    BY <1>2, <1>5 DEF IInv, CallsOK
  <1>7. EngineOK' /\ \A u, k, a : Applied(u, k, a)' <=> Applied(u, k, a)
    BY DEF IInv, EngineOK, Applied
  <1>8. /\ RequestsOK'
        /\ \A j \in DOMAIN requests' :
             (j \in DOMAIN requests /\ requests'[j] = requests[j]) \/ requests'[j] = new
    <2>1. PICK S : requests \in Seq(S)
      BY DEF IInv, RequestsOK
    <2>2. requests \in Seq(S \cup {new})
      BY <2>1
    <2>3. /\ requests' \in Seq(S \cup {new}) /\ Len(requests') = Len(requests) + 1
          /\ \A j \in 1 .. Len(requests) : requests'[j] = requests[j]
          /\ requests'[Len(requests) + 1] = new
      BY <1>2, <2>2, AppendProperties
    <2>4. DOMAIN requests' = 1 .. Len(requests) + 1 /\ DOMAIN requests = 1 .. Len(requests)
          /\ Len(requests) \in Nat
      BY <2>1, <2>3
    <2>5. \A j \in DOMAIN requests' : \/ j \in DOMAIN requests /\ requests'[j] = requests[j]
                                      \/ requests'[j] = new
      BY <2>3, <2>4
    <2>6. IsAsk(new.ask) /\ new.by \in Threads
      BY <1>1 DEF IsCall
    <2>7. RequestsOK
      BY DEF IInv
    <2> HIDE DEF new
    <2>8. RequestsOK'
      BY <2>3, <2>5, <2>6, <2>7 DEF RequestsOK
    <2> QED BY <2>5, <2>8
  <1>9. ASSUME NEW u, NEW k, NEW a, Requested(u, k, a)', ~Requested(u, k, a)
        PROVE  u = t /\ ask = Ask("edit", a, k)
    <2>1. PICK j \in DOMAIN requests' :
                  requests'[j].by = u /\ requests'[j].ask = Ask("edit", a, k)
      BY <1>9 DEF Requested
    <2>2. requests'[j] = new
      BY <1>8, <1>9, <2>1 DEF Requested
    <2> QED BY <2>1, <2>2
  <1>10. SentIsCounted'
    <2> SUFFICES ASSUME NEW u \in Threads, NEW k \in Nat, NEW a,
                        Applied(u, k, a)' \/ Requested(u, k, a)'
                 PROVE  k <= calls'[u].intents
      BY Zenon DEF SentIsCounted
    <2>1. CASE Applied(u, k, a) \/ Requested(u, k, a)
      <3>1. k <= calls[u].intents
        BY <2>1 DEF IInv, SentIsCounted
      <3>2. calls[u].intents \in Nat
        BY CallIsRecord DEF IsCall
      <3>3. calls'[u].intents = calls[u].intents \/ (u = t /\ calls'[u].intents = n)
        BY <1>4, <1>6
      <3> QED BY <3>1, <3>2, <3>3, <1>3
    <2>2. CASE Requested(u, k, a)' /\ ~Requested(u, k, a)
      <3>1. u = t /\ ask = Ask("edit", a, k)
        BY <2>2, <1>9
      <3>2. Ask("edit", a, k).type = "edit" /\ Ask("edit", a, k).intent = k
        BY DEF Ask
      <3>3. k = n /\ calls'[u].intents = n
        BY <3>1, <3>2, <1>3, <1>4, <1>6
      <3> QED BY <3>3, <1>3
    <2> QED BY <2>1, <2>2, <1>7
  <1>11. \A u \in Threads, k \in Nat : \A a : Means(u, k, a)' => Means(u, k, a)
    <2> SUFFICES ASSUME NEW u \in Threads, NEW k \in Nat, NEW a, Means(u, k, a)'
                 PROVE  Means(u, k, a)
      BY Zenon
    <2>1. Held(u, k, a)' => Held(u, k, a)
      BY <1>4, <1>6 DEF Held
    <2>2. Requested(u, k, a)' => Requested(u, k, a) \/ Held(u, k, a)
      BY <1>9 DEF Held
    <2> QED BY <2>1, <2>2, <1>7, Zenon DEF Means
  <1> QED BY <1>6, <1>7, <1>8, <1>10, <1>11, NothingNew

LEMMA SendInv == ASSUME IInv, NEW t \in Threads, Send(t) \/ SendShutdown(t) PROVE IInv'
  <1>1. calls[t].at # "idle"
    BY DEF Send, SendShutdown
  <1>2. CASE Submit(t, session.next, "waiting") /\ engine' = engine
    BY <1>1, <1>2, SubmitInv
  <1>3. CASE Submit(t, session.next, "closing") /\ engine' = engine
    BY <1>1, <1>3, SubmitInv
  <1>4. CASE \E ok, value : Returns(t, ok, value) /\ UNCHANGED <<engine, requests>>
    BY <1>4, ReturnsInv
  <1>5. \/ Submit(t, session.next, "waiting") /\ engine' = engine
        \/ Submit(t, session.next, "closing") /\ engine' = engine
        \/ Returns(t, FALSE, 0) /\ UNCHANGED <<engine, requests>>
        \/ Returns(t, TRUE, 1) /\ UNCHANGED <<engine, requests>>
    BY DEF Send, SendShutdown, engineSide
  <1> QED BY <1>2, <1>3, <1>4, <1>5

LEMMA ReceiveInv == ASSUME IInv, NEW t \in Threads, Receive(t) PROVE IInv'
  <1> DEFINE value == tasks[calls[t].seq].answer.value  ask == calls[t].ask
  <1>1. calls[t].at # "idle"
    BY DEF Receive
  <1>2. CASE Fails(t, FALSE)
    BY <1>2, FailsInv
  <1>3. CASE Continue(t, value)
    <2>1. UNCHANGED <<engine, requests>>
      BY <1>3 DEF Continue, engineSide
    <2>2. CASE Returns(t, TRUE, value) \/ Returns(t, value >= ask.arg, value)
      BY <2>1, <2>2, ReturnsInv
    <2>3. CASE calls' = [calls EXCEPT ![t].at = "between"]
      BY <1>1, <2>1, <2>3, GoesOnInv
    <2> QED BY <1>3, <2>2, <2>3 DEF Continue
  <1> QED BY <1>2, <1>3 DEF Receive

LEMMA ProgressElseInv ==
  ASSUME IInv, NEW t \in Threads,
         ReceiveWhileClosing(t) \/ SeeExit(t) \/ TimeOut(t) \/ ExitTimesOut(t)
           \/ GiveUpPolling(t) \/ Interrupt(t)
  PROVE  IInv'
  <1>1. CASE ReceiveWhileClosing(t)
    <2>1. CASE Fails(t, TRUE)
      BY <2>1, FailsInv
    <2>2. CASE calls' = [calls EXCEPT ![t].at = "exiting"] /\ UNCHANGED engineSide
      BY <1>1, <2>2, GoesOnInv DEF ReceiveWhileClosing, engineSide
    <2> QED BY <1>1, <2>1, <2>2 DEF ReceiveWhileClosing
  <1>2. CASE SeeExit(t) \/ GiveUpPolling(t)
    BY <1>2, ReturnsInv DEF SeeExit, GiveUpPolling, engineSide
  <1>3. CASE TimeOut(t) \/ ExitTimesOut(t) \/ Interrupt(t)
    BY <1>3, FailsInv DEF TimeOut, ExitTimesOut, Interrupt
  <1> QED BY <1>1, <1>2, <1>3

\* A save that is polled for is no edit.
LEMMA PollAgainInv == ASSUME IInv, NEW t \in Threads, PollAgain(t) PROVE IInv'
  <1> DEFINE ask == [calls[t].ask EXCEPT !.type = "poll"]
             c == [calls[t] EXCEPT !.at = "calling", !.ask = ask]
  <1>1. IsCall(calls[t]) /\ calls[t].at # "idle"
    BY CallIsRecord DEF PollAgain
  <1>2. calls' = [calls EXCEPT ![t] = c] /\ UNCHANGED <<engine, requests>>
    BY <1>1 DEF PollAgain, engineSide, IsCall, IInv, CallsOK
  <1>3. IsAsk(ask) /\ ask.type # "edit"
    BY <1>1 DEF IsCall, IsAsk, Ask
  <1> HIDE DEF ask
  <1>4. /\ c.ask = ask /\ c.intents = calls[t].intents /\ c.result = calls[t].result
        /\ c \in [at : {c.at}, ask : {c.ask}, seq : {c.seq}, known : {c.known},
                  intents : {c.intents}, result : {c.result}]
    BY <1>1 DEF IsCall
  <1> HIDE DEF c
  <1>5. IsCall(c)
    BY <1>1, <1>3, <1>4 DEF IsCall, EditIsNewest
  <1>6. \A a \in {c.ask, c.result.ask} :
            a.type = "edit" => a \in {calls[t].ask, calls[t].result.ask}
    BY <1>3, <1>4
  <1> QED BY <1>2, <1>4, <1>5, <1>6, CallKeepsEngine, CallStepInv

LEMMA UseInv == ASSUME IInv, NEW t \in Threads, Use(t) PROVE IInv'
  <1>1. CASE Launch(t) \/ AskState(t) \/ SaveSession(t) \/ Close(t)
    <2>1. PICK type, arg : type # "edit" /\ Calls(t, Ask(type, arg, 0))
      BY <1>1 DEF Launch, AskState, SaveSession, Close
    <2>2. IsAsk(Ask(type, arg, 0)) /\ Ask(type, arg, 0).type = type
      BY DEF IsAsk, Ask
    <2> QED BY <2>1, <2>2, CallsInv
  <1>2. CASE RetryEdit(t)
    <2>1. Calls(t, calls[t].result.ask)
      BY <1>2 DEF RetryEdit
    <2>2. IsAsk(calls[t].result.ask)
      BY CallIsRecord DEF IsCall
    <2> QED BY <2>1, <2>2, CallsInv
  <1>3. CASE SetTempo(t) \/ PollAgain(t) \/ Interrupt(t)
    BY <1>3, SetTempoInv, PollAgainInv, ProgressElseInv
  <1> QED BY <1>1, <1>2, <1>3 DEF Use

\* The interface dies: its calls forget what they asked.
LEMMA LoseInterfaceInv == ASSUME IInv, LoseInterface PROVE IInv'
  <1> DEFINE c(t) == [calls[t] EXCEPT !.at = "idle", !.ask = NoAsk, !.seq = 0,
                                      !.result = Outcome(NoAsk, FALSE, 0)]
  <1>1. calls' = [t \in Threads |-> c(t)] /\ UNCHANGED <<engine, requests>>
    BY DEF LoseInterface, engineSide
  <1>2. ASSUME NEW t \in Threads
        PROVE  /\ IsCall(c(t)) /\ c(t).intents = calls[t].intents
               /\ c(t).ask = NoAsk /\ c(t).result.ask = NoAsk
    <2> DEFINE result == Outcome(NoAsk, FALSE, 0)
               d == [calls[t] EXCEPT !.at = "idle", !.ask = NoAsk, !.seq = 0, !.result = result]
    <2>1. IsCall(calls[t])
      BY CallIsRecord
    <2>2. result.ask = NoAsk
      BY DEF Outcome
    <2> HIDE DEF result
    <2>3. /\ d.at = "idle" /\ d.ask = NoAsk /\ d.intents = calls[t].intents /\ d.result = result
          /\ d \in [at : {d.at}, ask : {d.ask}, seq : {d.seq}, known : {d.known},
                    intents : {d.intents}, result : {d.result}]
      BY <2>1 DEF IsCall
    <2> HIDE DEF d
    <2>4. IsCall(d)
      BY <2>1, <2>2, <2>3, NoAskIsAsk DEF IsCall, EditIsNewest
    <2> QED BY <2>2, <2>3, <2>4 DEF d, result
  <1> HIDE DEF c
  <1>3. \A t \in Threads : calls'[t] = c(t)
    BY <1>1
  <1>4. CallsOK'
    BY <1>1, <1>2, <1>3 DEF CallsOK
  <1>5. EngineOK' /\ RequestsOK'
    BY <1>1 DEF IInv, EngineOK, RequestsOK
  <1>6. /\ \A u, k, a : Applied(u, k, a)' <=> Applied(u, k, a)
        /\ \A u, k, a : Requested(u, k, a)' <=> Requested(u, k, a)
    BY <1>1 DEF Applied, Requested
  <1>7. SentIsCounted'
    <2>1. \A u \in Threads : calls'[u].intents = calls[u].intents
      BY <1>2, <1>3
    <2> QED BY <2>1, <1>6 DEF IInv, SentIsCounted
  <1>8. \A u \in Threads : \A k, a : ~Held(u, k, a)'
    <2> SUFFICES ASSUME NEW u \in Threads, NEW k, NEW a PROVE ~Held(u, k, a)'
      BY Zenon
    <2>1. Ask("edit", a, k).type = "edit"
      BY DEF Ask
    <2> QED BY <2>1, <1>2, <1>3, NoAskIsAsk DEF Held
  <1>9. \A u \in Threads, k \in Nat : \A a : Means(u, k, a)' => Means(u, k, a)
    BY <1>6, <1>8, Zenon DEF Means
  <1> QED BY <1>4, <1>5, <1>7, <1>9, NothingNew

-----------------------------------------------------------------------------
(* Every step.                                                              *)

LEMMA InitInv == Init => IInv
  <1> SUFFICES ASSUME Init PROVE IInv
    OBVIOUS
  <1>1. EngineOK
    BY DEF Init, EngineOK
  <1>2. requests \in Seq({}) /\ DOMAIN requests = {}
    BY DEF Init
  <1>3. RequestsOK
    BY <1>2 DEF RequestsOK
  <1>4. /\ calls = [t \in Threads |-> calls[t]]
        /\ \A t \in Threads :
             calls[t] = [at |-> "idle", ask |-> NoAsk, seq |-> 0, known |-> 1, intents |-> 0,
                         result |-> Outcome(NoAsk, FALSE, 0)]
    BY DEF Init
  <1>5. Outcome(NoAsk, FALSE, 0).ask = NoAsk
    BY DEF Outcome
  <1> DEFINE result == Outcome(NoAsk, FALSE, 0)
  <1> HIDE DEF result
  <1>6. ASSUME NEW t \in Threads
         PROVE  /\ calls[t] \in [at : {calls[t].at}, ask : {calls[t].ask}, seq : {calls[t].seq},
                                known : {calls[t].known}, intents : {calls[t].intents},
                                result : {calls[t].result}]
                /\ calls[t].at = "idle" /\ calls[t].ask = NoAsk /\ calls[t].intents = 0
                /\ calls[t].result = result
    <2> DEFINE d == [at |-> "idle", ask |-> NoAsk, seq |-> 0, known |-> 1, intents |-> 0,
                     result |-> result]
    <2>1. calls[t] = d
      BY <1>4 DEF result
    <2>2. /\ d \in [at : {d.at}, ask : {d.ask}, seq : {d.seq}, known : {d.known},
                    intents : {d.intents}, result : {d.result}]
          /\ d.at = "idle" /\ d.ask = NoAsk /\ d.intents = 0 /\ d.result = result
      OBVIOUS
    <2> HIDE DEF d
    <2> QED BY <2>1, <2>2
  <1>7. result.ask = NoAsk
    BY <1>5 DEF result
  <1>8. CallsOK
    <2> SUFFICES ASSUME NEW t \in Threads PROVE IsCall(calls[t])
      BY <1>4 DEF CallsOK
    <2> QED BY <1>6, <1>7, NoAskIsAsk DEF IsCall, EditIsNewest
  <1>9. \A t, k, a : ~Applied(t, k, a) /\ ~Requested(t, k, a)
    BY <1>2 DEF Init, Applied, Requested
  <1>10. \A t \in Threads : \A k, a : ~Held(t, k, a)
    <2> SUFFICES ASSUME NEW t \in Threads, NEW k, NEW a PROVE ~Held(t, k, a)
      BY Zenon
    <2>1. Ask("edit", a, k).type = "edit"
      BY DEF Ask
    <2> QED BY <2>1, <1>6, <1>7, NoAskIsAsk DEF Held
  <1>11. SentIsCounted /\ OneRevision
    BY <1>9, <1>10, Zenon DEF SentIsCounted, OneRevision, Means
  <1> QED BY <1>1, <1>3, <1>8, <1>11 DEF IInv

LEMMA NextInv == ASSUME IInv, [Next]_vars PROVE IInv'
  <1>1. CASE Serve \/ Crash
    BY <1>1, ServeElseInv, EditInv DEF Serve
  <1>2. CASE LoseInterface
    BY <1>2, LoseInterfaceInv
  <1>3. CASE \E k \in DOMAIN tasks : ReaderStep(k)
    BY <1>3, ReaderInv
  <1>4. CASE \E t \in Threads : Use(t) \/ Progress(t)
    <2>1. PICK t \in Threads : Use(t) \/ Progress(t)
      BY <1>4
    <2> QED BY <2>1, UseInv, SendInv, ReceiveInv, ProgressElseInv DEF Progress
  <1>5. CASE UNCHANGED vars
    <2>1. engine' = engine /\ requests' = requests /\ calls' = calls
      BY <1>5 DEF vars, engineSide, callerSide
    <2>2. EngineOK' /\ engine'.ledger = engine.ledger
      BY <2>1 DEF IInv, EngineOK
    <2> QED BY <2>1, <2>2, EngineStepInv DEF RequestsShrink
  <1> QED BY <1>1, <1>2, <1>3, <1>4, <1>5 DEF Next

\* An edit whose answer was lost, late or somebody else's, and that its author
\* sends again, is applied at most once, for any number of threads, requests
\* and interruptions and wherever engine or interface stop: the engine
\* applies it only as the revision it names (SET_TEMPO, UNDO, REDO), and every
\* copy of it names the same one.
THEOREM EditsAreAppliedOnce == Spec => []EditsApplyOnce
  <1>1. Init => IInv
    BY InitInv
  <1>2. IInv /\ [Next]_vars => IInv'
    BY NextInv
  <1>3. IInv => EditsApplyOnce
    <2> SUFFICES ASSUME IInv, NEW i \in DOMAIN engine.ledger, NEW j \in DOMAIN engine.ledger,
                        engine.ledger[i] = engine.ledger[j]
                 PROVE  i = j
      BY DEF EditsApplyOnce, IsInjective
    <2>1. PICK t \in Threads, k \in Nat : engine.ledger[i] = <<t, k>>
      BY DEF IInv, EngineOK
    <2>2. Means(t, k, i) /\ Means(t, k, j)
      BY <2>1 DEF Means, Applied
    <2> QED BY <2>2 DEF IInv, OneRevision
  <1> QED BY <1>1, <1>2, <1>3, PTL DEF Spec

-----------------------------------------------------------------------------
(* Whose answer it is, and what it tells.                                   *)
(*                                                                         *)
(* An answer outlives the call that gave up on it, in the pipe or in the    *)
(* hands of a task.  It does no harm because sequence numbers are not used  *)
(* twice: whoever finds his own number found the answer to his own request. *)

\* The answers that somebody may still take for his, with their sequence numbers.
Seen ==
    {<<answers[j].seq, answers[j].answer>> : j \in DOMAIN answers}
      \cup {<<tasks[k].seq, tasks[k].answer>> : k \in {i \in DOMAIN tasks : tasks[i].at = "done"}}

\* No request is served any more: the engine left its loop with everything saved.
Over ==
    /\ engine.run \notin {"ready", "stopping"} /\ Settled /\ requests = <<>>
    /\ session.phase \in {"closed", "lost"}

\* What an acknowledgement tells thread t about what it asked.
IsTrue(t, ask, answer) ==
    answer.type = "ack" =>
      /\ answer.value \in Nat
      /\ (ask.type = "edit" => answer.value = ask.arg + 1 /\ Applied(t, ask.intent, ask.arg))
      /\ (ask.type = "poll" => answer.value <= engine.durable)
      /\ (ask.type = "shutdown" => Over)

IsUnit(unit) == unit \in [part : {unit.part}, seq : {unit.seq}, answer : {unit.answer}]
IsTask(task) == task \in [at : {task.at}, seq : {task.seq}, answer : {task.answer}]

PipesOK ==
    /\ \E S : answers \in Seq(S)
    /\ \A j \in DOMAIN answers : IsUnit(answers[j])
    /\ tasks = [k \in DOMAIN tasks |-> tasks[k]]
    /\ \A k \in DOMAIN tasks : IsTask(tasks[k])
    /\ session \in [phase : {session.phase}, next : Nat]

NumbersOK(t) ==
    calls[t].known \in Nat /\ calls[t].ask.arg \in Nat /\ calls[t].result.ask.arg \in Nat

\* A sequence number that is on its way was given out.
NumbersAreOld ==
    /\ engine.durable \in Nat
    /\ \A j \in DOMAIN requests :
         /\ requests[j].ask.arg \in Nat
         /\ requests[j].seq \in Nat /\ requests[j].seq < session.next
    /\ \A p \in Seen : p[1] \in Nat /\ p[1] < session.next

\* HELLO is alone, and a call that exchanges owns the lock.
PhaseOK(t) ==
    /\ calls[t].at # "idle" /\ calls[t].ask.type = "hello" =>
         session.phase = "launching" /\ \A u \in Threads \ {t} : calls[u].at = "idle"
    /\ calls[t].at # "idle" /\ calls[t].ask.type # "hello" => session.phase \in {"open", "closed"}
    /\ calls[t].at \in {"waiting", "closing", "exiting"} => lock = {t}
    /\ calls[t].at = "waiting" => calls[t].ask.type # "shutdown"
    /\ calls[t].at = "between" => calls[t].ask.type \in {"save", "poll"}
    /\ calls[t].at \in {"closing", "exiting"} =>
         calls[t].ask.type = "shutdown" /\ session.phase = "closed"

\* Nothing is asked after SHUTDOWN.
ShutdownIsLast ==
    /\ \A i \in DOMAIN requests, j \in DOMAIN requests :
         requests[i].ask.type = "shutdown" => j <= i /\ session.phase \in {"closed", "lost"}
    /\ engine.run = "stopping" =>
         /\ session.phase \in {"closed", "lost"}
         /\ \A j \in DOMAIN requests : requests[j].ask.type = "shutdown"
    /\ engine.run \in {"exiting", "ended"} => Over

\* What carries the number a call waits for is its request and its answer.
AwaitedOK(t) ==
    /\ calls[t].at \in {"waiting", "closing"} =>
         /\ calls[t].seq \in DOMAIN tasks
         /\ \A j \in DOMAIN requests :
              requests[j].seq = calls[t].seq => requests[j].by = t /\ requests[j].ask = calls[t].ask
         /\ \A p \in Seen : p[1] = calls[t].seq => IsTrue(t, calls[t].ask, p[2])
    /\ calls[t].at = "exiting" => Over

ResultOK(t, r) ==
    r.ok =>
      /\ (r.ask.type = "edit" => r.value = r.ask.arg + 1 /\ Applied(t, r.ask.intent, r.ask.arg))
      /\ r.ask.type # "save"
      /\ (r.ask.type = "poll" => engine.durable >= r.ask.arg)
      /\ (r.ask.type = "shutdown" /\ r.value = 0 => Over /\ ~Alive)

XInv ==
    /\ PipesOK /\ NumbersAreOld /\ ShutdownIsLast
    /\ \A t \in Threads :
         NumbersOK(t) /\ PhaseOK(t) /\ AwaitedOK(t) /\ ResultOK(t, calls[t].result)

-----------------------------------------------------------------------------
(* What every step leaves true.                                             *)

\* The ledger and the disk only grow, and what is over stays over.
Grows ==
    /\ engine.durable \in Nat /\ engine'.durable \in Nat /\ engine.durable <= engine'.durable
    /\ \A a \in DOMAIN engine.ledger :
         a \in DOMAIN engine'.ledger /\ engine'.ledger[a] = engine.ledger[a]
    /\ Over => Over'
    /\ ~Alive => ~Alive'

LEMMA TrueStays ==
  ASSUME Grows, NEW t, NEW ask, NEW answer, IsTrue(t, ask, answer)
  PROVE  IsTrue(t, ask, answer)'
  BY DEF Grows, IsTrue, Applied

LEMMA ResultStays ==
  ASSUME Grows, NEW t, NEW r, r.ask.arg \in Nat, ResultOK(t, r)
  PROVE  ResultOK(t, r)'
  BY DEF Grows, ResultOK, Applied

\* The requests that are left are the last ones, in their order.
LEMMA StillOld ==
  ASSUME IInv, RequestsShrink
  PROVE  /\ DOMAIN requests' \subseteq Nat /\ DOMAIN requests \subseteq Nat
         /\ \E n \in Nat : \A j \in DOMAIN requests' :
              j + n \in DOMAIN requests /\ requests'[j] = requests[j + n]
  <1>1. PICK S : requests \in Seq(S)
    BY DEF IInv, RequestsOK
  <1>2. CASE requests' = requests
    <2>1. \A j \in DOMAIN requests' : j + 0 \in DOMAIN requests /\ requests'[j] = requests[j + 0]
      BY <1>1, <1>2
    <2> QED BY <1>1, <1>2, <2>1
  <1>3. CASE requests' = <<>>
    BY <1>1, <1>3
  <1>4. CASE requests # <<>> /\ requests' = Tail(requests)
    <2>1. /\ Len(Tail(requests)) = Len(requests) - 1 /\ Tail(requests) \in Seq(S)
          /\ \A j \in 1 .. Len(Tail(requests)) : Tail(requests)[j] = requests[j + 1]
      BY <1>1, <1>4, HeadTailProperties
    <2>2. \A j \in DOMAIN requests' : j + 1 \in DOMAIN requests /\ requests'[j] = requests[j + 1]
      BY <1>1, <1>4, <2>1
    <2> QED BY <1>1, <1>4, <2>1, <2>2
  <1> QED BY <1>2, <1>3, <1>4 DEF RequestsShrink

\* The engine, or the readers: the callers stand still.
LEMMA ServeStepX ==
  ASSUME IInv, XInv, Grows, RequestsShrink, UNCHANGED callerSide, PipesOK',
         \A t \in Threads : calls[t].at \in {"waiting", "closing"} => calls[t].seq \in DOMAIN tasks',
         \A p \in Seen' :
            \/ p \in Seen
            \/ \E r : /\ 1 \in DOMAIN requests /\ r = requests[1] /\ p[1] = r.seq
                      /\ IsTrue(r.by, r.ask, p[2])',
         engine'.run = "stopping" =>
            /\ session.phase \in {"closed", "lost"}
            /\ \A j \in DOMAIN requests' : requests'[j].ask.type = "shutdown",
         engine'.run \in {"exiting", "ended"} => Over'
  PROVE  XInv'
  <1>1. calls' = calls /\ lock' = lock /\ session' = session
    BY DEF callerSide
  <1>2. PICK n \in Nat : \A j \in DOMAIN requests' :
                j + n \in DOMAIN requests /\ requests'[j] = requests[j + n]
    BY StillOld
  <1>3. NumbersAreOld'
    <2>1. \A j \in DOMAIN requests' : /\ requests'[j].ask.arg \in Nat
                                      /\ requests'[j].seq \in Nat
                                      /\ requests'[j].seq < session'.next
      BY <1>1, <1>2 DEF XInv, NumbersAreOld
    <2>2. \A p \in Seen' : p[1] \in Nat /\ p[1] < session'.next
      BY <1>1 DEF XInv, NumbersAreOld
    <2>3. engine'.durable \in Nat
      BY DEF Grows
    <2> QED BY <2>1, <2>2, <2>3 DEF NumbersAreOld
  <1>4. ShutdownIsLast'
    <2>1. ASSUME NEW i \in DOMAIN requests', NEW j \in DOMAIN requests',
                 requests'[i].ask.type = "shutdown"
          PROVE  j <= i /\ session'.phase \in {"closed", "lost"}
      <3>1. /\ i + n \in DOMAIN requests /\ j + n \in DOMAIN requests
            /\ requests[i + n].ask.type = "shutdown"
        BY <1>2, <2>1
      <3>2. j + n <= i + n /\ session.phase \in {"closed", "lost"}
        BY <3>1 DEF XInv, ShutdownIsLast
      <3>3. i \in Nat /\ j \in Nat
        BY StillOld
      <3> QED BY <1>1, <3>2, <3>3
    <2> QED BY <1>1, <2>1 DEF ShutdownIsLast
  <1>5. ASSUME NEW t \in Threads
        PROVE  (NumbersOK(t) /\ PhaseOK(t) /\ AwaitedOK(t) /\ ResultOK(t, calls[t].result))'
    <2>0. NumbersOK(t) /\ PhaseOK(t) /\ AwaitedOK(t) /\ ResultOK(t, calls[t].result)
      BY DEF XInv
    <2>1. NumbersOK(t)' /\ PhaseOK(t)'
      BY <1>1, <2>0 DEF NumbersOK, PhaseOK
    <2>2. ResultOK(t, calls[t].result)'
      BY <1>1, <2>0, ResultStays DEF NumbersOK
    <2>3. calls'[t].at = "exiting" => Over'
      BY <1>1, <2>0 DEF AwaitedOK, Grows
    <2>4. ASSUME calls[t].at \in {"waiting", "closing"}, NEW j \in DOMAIN requests',
                 requests'[j].seq = calls[t].seq
          PROVE  requests'[j].by = t /\ requests'[j].ask = calls[t].ask
      BY <1>2, <2>0, <2>4 DEF AwaitedOK
    <2>5. ASSUME calls[t].at \in {"waiting", "closing"}, NEW p \in Seen', p[1] = calls[t].seq,
                 NEW ask, ask = calls[t].ask
          PROVE  IsTrue(t, ask, p[2])'
      <3>1. CASE p \in Seen
        <4>1. IsTrue(t, ask, p[2])
          BY <2>0, <2>5, <3>1 DEF AwaitedOK
        <4> QED BY <4>1, TrueStays
      <3>2. CASE p \notin Seen
        <4>1. PICK r : /\ 1 \in DOMAIN requests /\ r = requests[1] /\ p[1] = r.seq
                       /\ IsTrue(r.by, r.ask, p[2])'
          BY <3>2
        <4>2. r.by = t /\ r.ask = ask
          BY <4>1, <2>0, <2>5 DEF AwaitedOK
        <4> QED BY <4>1, <4>2
      <3> QED BY <3>1, <3>2
    <2>6. AwaitedOK(t)'
      BY <1>1, <2>3, <2>4, <2>5 DEF AwaitedOK
    <2> QED BY <2>1, <2>2, <2>6
  <1> QED BY <1>3, <1>4, <1>5 DEF XInv


\* An answer is put behind the others, for the request that was first.
LEMMA AnsweredSeen ==
  ASSUME IInv, XInv, requests # <<>>, NEW answer, Answered(answer),
         UNCHANGED readerSide, UNCHANGED callerSide
  PROVE  /\ PipesOK' /\ RequestsShrink
         /\ \A t \in Threads : calls[t].at \in {"waiting", "closing"} => calls[t].seq \in DOMAIN tasks'
         /\ 1 \in DOMAIN requests /\ Head(requests) = requests[1] /\ Len(requests) \in Nat
         /\ \A p \in Seen' : p \in Seen \/ (p[1] = requests[1].seq /\ p[2] = answer)
  <1> DEFINE seq == Head(requests).seq
             new == [i \in 1 .. 2 |-> [part |-> Parts[i], seq |-> seq, answer |-> answer]]
  <1>1. answers' = answers \o new /\ requests' = Tail(requests)
    BY DEF Answered
  <1>2. tasks' = tasks /\ session' = session
    BY DEF readerSide, callerSide
  <1>3. 1 \in DOMAIN requests /\ Head(requests) = requests[1] /\ Len(requests) \in Nat
    <2>1. PICK S : requests \in Seq(S)
      BY DEF IInv, RequestsOK
    <2> QED BY <1>1, <2>1, TakenRequest DEF IInv
  <1>4. PICK S : answers \in Seq(S)
    BY DEF XInv, PipesOK
  <1>5. \A i \in 1 .. 2 : IsUnit(new[i]) /\ new[i].seq = seq /\ new[i].answer = answer
    BY DEF IsUnit
  <1>6. new \in Seq(S \cup {new[1], new[2]}) /\ answers \in Seq(S \cup {new[1], new[2]})
        /\ Len(new) = 2
    BY <1>4
  <1> HIDE DEF new
  <1>7. /\ answers' \in Seq(S \cup {new[1], new[2]})
        /\ \A j \in DOMAIN answers' : \/ j \in DOMAIN answers /\ answers'[j] = answers[j]
                                      \/ \E i \in 1 .. 2 : answers'[j] = new[i]
    <2> DEFINE T == S \cup {new[1], new[2]}
    <2>0. answers \in Seq(T) /\ new \in Seq(T) /\ Len(new) = 2
      BY <1>6
    <2> HIDE DEF T
    <2>1. /\ answers' \in Seq(T) /\ Len(answers') = Len(answers) + 2
          /\ \A j \in 1 .. Len(answers) + 2 :
               answers'[j] = IF j <= Len(answers) THEN answers[j] ELSE new[j - Len(answers)]
      <3>1. /\ answers \o new \in Seq(T) /\ Len(answers \o new) = Len(answers) + Len(new)
            /\ \A j \in 1 .. Len(answers) + Len(new) :
                 (answers \o new)[j] = IF j <= Len(answers) THEN answers[j] ELSE new[j - Len(answers)]
        BY ONLY <2>0, ConcatProperties, Zenon
      <3> QED BY ONLY <1>1, <2>0, <3>1, Zenon
    <2>2. \A j \in DOMAIN answers' : \/ j \in DOMAIN answers /\ answers'[j] = answers[j]
                                     \/ \E i \in 1 .. 2 : answers'[j] = new[i]
      <3> SUFFICES ASSUME NEW j \in DOMAIN answers'
                   PROVE  \/ j \in DOMAIN answers /\ answers'[j] = answers[j]
                          \/ \E i \in 1 .. 2 : answers'[j] = new[i]
        OBVIOUS
      <3>1. j \in 1 .. Len(answers) + 2 /\ DOMAIN answers = 1 .. Len(answers) /\ Len(answers) \in Nat
        BY <2>0, <2>1
      <3>2. CASE j <= Len(answers)
        BY <2>1, <3>1, <3>2
      <3>3. CASE ~(j <= Len(answers))
        <4>1. j - Len(answers) \in 1 .. 2
          BY <3>1, <3>3
        <4>2. answers'[j] = new[j - Len(answers)]
          BY <2>1, <3>1, <3>3
        <4> QED BY <4>1, <4>2
      <3> QED BY <3>2, <3>3
    <2> QED BY <2>1, <2>2 DEF T
  <1>8. PipesOK'
    <2>1. \A j \in DOMAIN answers' : IsUnit(answers'[j])
      BY <1>5, <1>7 DEF XInv, PipesOK
    <2>2. \E V : answers' \in Seq(V)
      BY <1>7
    <2> QED BY <2>1, <2>2, <1>2 DEF XInv, PipesOK, IsUnit, IsTask
  <1>9. ASSUME NEW p \in Seen', p \notin Seen
        PROVE  p[1] = requests[1].seq /\ p[2] = answer
    <2>1. PICK j \in DOMAIN answers' : p = <<answers'[j].seq, answers'[j].answer>>
      BY <1>2, <1>9 DEF Seen
    <2>2. ~(j \in DOMAIN answers /\ answers'[j] = answers[j])
      BY <2>1, <1>9 DEF Seen
    <2>3. PICK i \in 1 .. 2 : answers'[j] = new[i]
      BY <1>7, <2>2
    <2> QED BY <2>1, <2>3, <1>3, <1>5
  <1>10. RequestsShrink
    BY <1>1 DEF RequestsShrink
  <1>11. \A t \in Threads : calls[t].at \in {"waiting", "closing"} => calls[t].seq \in DOMAIN tasks'
    BY <1>2 DEF XInv, AwaitedOK
  <1> QED BY <1>3, <1>8, <1>9, <1>10, <1>11

LEMMA PipesStay ==
  ASSUME XInv, UNCHANGED <<answers, readerSide, callerSide>>
  PROVE  /\ PipesOK' /\ Seen' = Seen
         /\ \A t \in Threads : calls[t].at \in {"waiting", "closing"} => calls[t].seq \in DOMAIN tasks'
  <1>1. answers' = answers /\ tasks' = tasks /\ session' = session
    BY DEF readerSide, callerSide
  <1> QED BY <1>1 DEF XInv, PipesOK, IsUnit, IsTask, Seen, AwaitedOK

\* Where the engine is, and nothing else.
LEMMA RunChanges ==
  ASSUME IInv, XInv, NEW r, engine' = [engine EXCEPT !.run = r], RequestsShrink,
         r \in {"ready", "stopping"} => engine.run \in {"ready", "stopping"},
         ~Alive => r \in {"gone", "ended"}, session' = session
  PROVE  /\ Grows /\ engine'.run = r
         /\ (Settled' <=> Settled)
  <1>1. /\ engine'.run = r /\ engine'.ledger = engine.ledger
        /\ engine'.durable = engine.durable /\ engine'.failed = engine.failed
    BY DEF IInv, EngineOK
  <1>2. Settled' <=> Settled
    BY <1>1 DEF Settled, Revision
  <1>3. requests = <<>> => requests' = <<>>
    BY DEF RequestsShrink
  <1>4. Over => Over'
    BY <1>1, <1>2, <1>3 DEF Over
  <1>5. engine.durable \in Nat
    BY DEF XInv, NumbersAreOld
  <1> QED BY <1>1, <1>2, <1>4, <1>5 DEF Grows, Alive

LEMMA RevisionIsNat ==
  ASSUME IInv
  PROVE  /\ Len(engine.ledger) \in Nat /\ Revision = Len(engine.ledger) + 1
         /\ DOMAIN engine.ledger = 1 .. Len(engine.ledger)
  BY DEF IInv, EngineOK, Revision

\* The engine stays as it is: what it tells must be true now.
LEMMA TellsX ==
  ASSUME IInv, XInv, engine' = engine, engine.run = "ready", requests # <<>>,
         NEW answer, Answered(answer),
         UNCHANGED readerSide, UNCHANGED callerSide,
         \A r : r = requests[1] => IsTrue(r.by, r.ask, answer)'
  PROVE  XInv'
  <1>1. /\ PipesOK' /\ RequestsShrink
        /\ \A t \in Threads : calls[t].at \in {"waiting", "closing"} => calls[t].seq \in DOMAIN tasks'
        /\ 1 \in DOMAIN requests
        /\ \A p \in Seen' : p \in Seen \/ (p[1] = requests[1].seq /\ p[2] = answer)
    BY AnsweredSeen
  <1>2. Grows
    BY DEF Grows, XInv, NumbersAreOld, Over, Alive
  <1>3. ASSUME NEW p \in Seen', p \notin Seen
        PROVE  \E r : /\ 1 \in DOMAIN requests /\ r = requests[1] /\ p[1] = r.seq
                      /\ IsTrue(r.by, r.ask, p[2])'
    BY <1>1, <1>3
  <1> QED BY <1>1, <1>2, <1>3, ServeStepX

LEMMA TellX == ASSUME IInv, XInv, TellState \/ RequestSave \/ PollSave PROVE XInv'
  <1>1. /\ engine' = engine /\ engine.run = "ready" /\ requests # <<>>
        /\ UNCHANGED readerSide /\ UNCHANGED callerSide
    BY DEF TellState, RequestSave, PollSave, Takes
  <1>2. Head(requests) = requests[1] /\ 1 \in DOMAIN requests
    <2>1. requests' = Tail(requests)
      BY DEF TellState, RequestSave, PollSave, Ack, Reject, Answered
    <2> QED BY <1>1, <2>1, TakenRequest DEF IInv
  <1>3. requests[1].ask.arg \in Nat /\ engine.durable \in Nat
    BY <1>2 DEF XInv, NumbersAreOld
  <1>4. Revision \in Nat
    BY RevisionIsNat
  <1>5. CASE TellState \/ RequestSave
    <2>1. PICK answer : Answered(answer) /\ answer.value = Revision
      BY <1>5 DEF TellState, RequestSave, Ack, Reject
    <2>2. requests[1].ask.type \in {"state", "save"}
      BY <1>2, <1>5 DEF TellState, RequestSave, Takes
    <2>3. \A r : r = requests[1] => IsTrue(r.by, r.ask, answer)'
      BY <1>4, <2>1, <2>2 DEF IsTrue
    <2> QED BY <1>1, <2>1, <2>3, TellsX
  <1>6. CASE PollSave
    <2>1. PICK answer : Answered(answer) /\
                (answer.type = "ack" => answer.value \in {0, engine.durable})
      <3>1. CASE Reject(0)
        BY <3>1 DEF Reject
      <3>2. CASE \E value \in {0, engine.durable} : Ack(value)
        BY <3>2 DEF Ack
      <3> QED BY <1>6, <3>1, <3>2 DEF PollSave
    <2>2. requests[1].ask.type = "poll"
      BY <1>2, <1>6 DEF PollSave, Takes
    <2>3. \A r : r = requests[1] => IsTrue(r.by, r.ask, answer)'
      BY <1>1, <1>3, <2>1, <2>2 DEF IsTrue
    <2> QED BY <1>1, <2>1, <2>3, TellsX
  <1> QED BY <1>5, <1>6

LEMMA EditX == ASSUME IInv, XInv, Edit PROVE XInv'
  <1> DEFINE head == Head(requests)  ledger == engine.ledger
  <1>1. /\ engine.run = "ready" /\ requests # <<>> /\ head.ask.type = "edit"
        /\ UNCHANGED readerSide /\ UNCHANGED callerSide
    BY DEF Edit, Takes
  <1>2. head = requests[1] /\ 1 \in DOMAIN requests
    <2>1. requests' = Tail(requests)
      BY DEF Edit, Ack, Reject, Answered
    <2> QED BY <1>1, <2>1, TakenRequest DEF IInv
  <1>3. CASE head.ask.arg # Revision
    <2>1. Answered([type |-> "reject", value |-> Revision]) /\ engine' = engine
      BY <1>3 DEF Edit, Reject
    <2>2. \A r : r = requests[1] => IsTrue(r.by, r.ask, [type |-> "reject", value |-> Revision])'
      BY DEF IsTrue
    <2>3. ASSUME NEW answer, answer = [type |-> "reject", value |-> Revision]
          PROVE  Answered(answer) /\ \A r : r = requests[1] => IsTrue(r.by, r.ask, answer)'
      BY <2>1, <2>3 DEF IsTrue
    <2> QED BY <1>1, <2>1, <2>3, TellsX
  <1>4. CASE head.ask.arg = Revision
    <2>1. PICK answer : Answered(answer) /\ answer.value = Revision + 1
      BY <1>4 DEF Edit, Ack
    <2>2. engine' = [engine EXCEPT !.ledger = Append(@, <<head.by, head.ask.intent>>)]
      BY <1>4 DEF Edit
    <2>3. /\ engine'.ledger = Append(ledger, <<head.by, head.ask.intent>>)
          /\ engine'.run = "ready" /\ engine'.durable = engine.durable
      BY <1>1, <2>2 DEF IInv, EngineOK
    <2>4. ledger \in Seq(Threads \X Nat) /\ <<head.by, head.ask.intent>> \in Threads \X Nat
      BY <1>2 DEF IInv, EngineOK, RequestsOK, IsAsk
    <2>5. /\ DOMAIN engine'.ledger = 1 .. Len(ledger) + 1
          /\ \A a \in DOMAIN ledger : engine'.ledger[a] = ledger[a]
          /\ engine'.ledger[Len(ledger) + 1] = <<head.by, head.ask.intent>>
          /\ DOMAIN ledger = 1 .. Len(ledger) /\ Len(ledger) \in Nat
      BY <2>3, <2>4, AppendProperties
    <2>6. Grows
      BY <1>1, <2>3, <2>5 DEF Grows, XInv, NumbersAreOld, Over, Alive
    <2>7. /\ PipesOK' /\ RequestsShrink
          /\ \A t \in Threads :
               calls[t].at \in {"waiting", "closing"} => calls[t].seq \in DOMAIN tasks'
          /\ \A p \in Seen' : p \in Seen \/ (p[1] = requests[1].seq /\ p[2] = answer)
      BY <1>1, <2>1, AnsweredSeen
    <2>8. ASSUME NEW r, r = requests[1]
          PROVE  IsTrue(r.by, r.ask, answer)'
      <3>1. r.ask.arg = Len(ledger) + 1 /\ r.ask.type = "edit" /\ answer.value = Len(ledger) + 1 + 1
        BY <1>1, <1>2, <1>4, <2>1, <2>8 DEF Revision
      <3>2. Applied(r.by, r.ask.intent, r.ask.arg)'
        BY <1>2, <2>5, <2>8, <3>1 DEF Applied
      <3> QED BY <2>5, <3>1, <3>2 DEF IsTrue
    <2>9. ASSUME NEW p \in Seen', p \notin Seen
          PROVE  \E r : /\ 1 \in DOMAIN requests /\ r = requests[1] /\ p[1] = r.seq
                        /\ IsTrue(r.by, r.ask, p[2])'
      BY <1>2, <2>7, <2>8, <2>9
    <2> QED BY <1>1, <2>3, <2>6, <2>7, <2>9, ServeStepX
  <1> QED BY <1>3, <1>4

LEMMA GreetX == ASSUME IInv, XInv, Greet PROVE XInv'
  <1>1. PICK answer : Answered(answer) /\ answer.type = "welcome"
    BY DEF Greet
  <1>2. /\ engine.run = "ready" /\ requests # <<>>
        /\ UNCHANGED readerSide /\ UNCHANGED callerSide
    BY DEF Greet, Takes
  <1>3. /\ engine'.run = "ready" /\ engine'.ledger = engine.ledger
        /\ engine'.durable = engine.durable
    BY <1>2 DEF Greet, IInv, EngineOK
  <1>4. Grows
    BY <1>2, <1>3 DEF Grows, XInv, NumbersAreOld, Over, Alive
  <1>5. /\ PipesOK' /\ RequestsShrink /\ 1 \in DOMAIN requests
        /\ \A t \in Threads : calls[t].at \in {"waiting", "closing"} => calls[t].seq \in DOMAIN tasks'
        /\ \A p \in Seen' : p \in Seen \/ (p[1] = requests[1].seq /\ p[2] = answer)
    BY <1>1, <1>2, AnsweredSeen
  <1>6. \A r : IsTrue(r.by, r.ask, answer)'
    BY <1>1 DEF IsTrue
  <1>7. ASSUME NEW p \in Seen', p \notin Seen
        PROVE  \E r : /\ 1 \in DOMAIN requests /\ r = requests[1] /\ p[1] = r.seq
                      /\ IsTrue(r.by, r.ask, p[2])'
    BY <1>5, <1>6, <1>7
  <1> QED BY <1>2, <1>3, <1>4, <1>5, <1>7, ServeStepX

LEMMA SaveX == ASSUME IInv, XInv, SaveInBackground PROVE XInv'
  <1>1. /\ engine.run \in {"ready", "stopping"} /\ UNCHANGED <<requests, answers, readerSide, callerSide>>
        /\ RequestsShrink
    BY DEF SaveInBackground, RequestsShrink
  <1>2. engine.durable \in Nat /\ Revision \in Nat
    BY RevisionIsNat DEF XInv, NumbersAreOld
  <1>3. PICK r \in engine.durable + 1 .. Revision :
             \/ engine' = [engine EXCEPT !.durable = r, !.failed = 0]
             \/ engine' = [engine EXCEPT !.failed = r]
    BY DEF SaveInBackground
  <1>4. /\ engine'.run = engine.run /\ engine'.ledger = engine.ledger
        /\ engine'.durable \in {engine.durable, r}
    BY <1>3 DEF IInv, EngineOK
  <1>5. Grows
    BY <1>1, <1>2, <1>4 DEF Grows, Over, Alive
  <1>6. /\ engine'.run = "stopping" =>
             /\ session.phase \in {"closed", "lost"}
             /\ \A j \in DOMAIN requests' : requests'[j].ask.type = "shutdown"
        /\ ~(engine'.run \in {"exiting", "ended"})
    BY <1>1, <1>4 DEF XInv, ShutdownIsLast
  <1> QED BY <1>1, <1>5, <1>6, PipesStay, ServeStepX

\* The engine's way out: told to, left alone, or in the middle of an answer.
LEMMA LeaveX ==
  ASSUME IInv, XInv, BeginShutdown \/ SeeEndOfInput \/ FailToAnswer
  PROVE  XInv'
  <1>1. /\ engine.run = "ready" /\ engine' = [engine EXCEPT !.run = "stopping"]
        /\ UNCHANGED <<answers, readerSide, callerSide>> /\ RequestsShrink
    BY DEF BeginShutdown, SeeEndOfInput, FailToAnswer, Takes, RequestsShrink
  <1>2. session' = session
    BY <1>1 DEF callerSide
  <1>3. Grows /\ engine'.run = "stopping"
    BY <1>1, <1>2, RunChanges DEF Alive
  <1>4. /\ session.phase \in {"closed", "lost"}
        /\ \A j \in DOMAIN requests' : requests'[j].ask.type = "shutdown"
    <2>1. CASE SeeEndOfInput \/ FailToAnswer
      BY <2>1 DEF SeeEndOfInput, FailToAnswer
    <2>2. CASE BeginShutdown
      <3>1. PICK S : requests \in Seq(S)
        BY DEF IInv, RequestsOK
      <3>2. requests # <<>> /\ Head(requests).ask.type = "shutdown" /\ requests' = requests
        BY <2>2 DEF BeginShutdown, Takes
      <3>3. /\ 1 \in DOMAIN requests /\ Head(requests) = requests[1]
            /\ DOMAIN requests = 1 .. Len(requests) /\ Len(requests) \in Nat
        BY <3>1, <3>2
      <3>4. \A j \in DOMAIN requests : j <= 1 /\ session.phase \in {"closed", "lost"}
        BY <3>2, <3>3 DEF XInv, ShutdownIsLast
      <3>5. \A j \in DOMAIN requests : j = 1
        BY <3>3, <3>4
      <3> QED BY <3>2, <3>3, <3>4, <3>5
    <2> QED BY <2>1, <2>2
  <1> QED BY <1>1, <1>3, <1>4, PipesStay, ServeStepX

LEMMA ExitX == ASSUME IInv, XInv, Exit \/ Crash PROVE XInv'
  <1>1. /\ UNCHANGED <<answers, readerSide, callerSide>> /\ RequestsShrink
        /\ \/ engine' = [engine EXCEPT !.run = "ended"] /\ engine.run = "exiting"
           \/ engine' = [engine EXCEPT !.run = "gone"] /\ engine.run \notin {"gone", "ended"}
    BY DEF Exit, Crash, RequestsShrink, Alive
  <1>2. session' = session
    BY <1>1 DEF callerSide
  <1>3. PICK r \in {"ended", "gone"} :
             engine' = [engine EXCEPT !.run = r] /\ (r = "ended" => engine.run = "exiting")
    BY <1>1
  <1>4. Grows /\ engine'.run = r
    BY <1>1, <1>2, <1>3, RunChanges DEF Alive
  <1>5. engine'.run \in {"exiting", "ended"} => Over'
    BY <1>3, <1>4 DEF XInv, ShutdownIsLast, Grows
  <1> QED BY <1>1, <1>3, <1>4, <1>5, PipesStay, ServeStepX

\* SHUTDOWN is answered when everything is saved, and nothing was asked after it.
LEMMA FinishX == ASSUME IInv, XInv, FinishShutdown PROVE XInv'
  <1>1. /\ engine.run = "stopping" /\ Settled /\ engine' = [engine EXCEPT !.run = "exiting"]
        /\ UNCHANGED readerSide /\ UNCHANGED callerSide /\ session' = session
    BY DEF FinishShutdown, callerSide
  <1>2. /\ session.phase \in {"closed", "lost"}
        /\ \A j \in DOMAIN requests : requests[j].ask.type = "shutdown"
    BY <1>1 DEF XInv, ShutdownIsLast
  <1>3. CASE requests = <<>>
    <2>1. UNCHANGED <<requests, answers>> /\ RequestsShrink
      BY <1>3 DEF FinishShutdown, RequestsShrink
    <2>2. Grows /\ engine'.run = "exiting" /\ Settled'
      BY <1>1, <2>1, RunChanges DEF Alive
    <2>3. Over'
      BY <1>1, <1>2, <1>3, <2>1, <2>2 DEF Over
    <2> QED BY <1>1, <2>1, <2>2, <2>3, PipesStay, ServeStepX
  <1>4. CASE requests # <<>>
    <2>1. PICK answer : Answered(answer) /\ answer.value = 0
      BY <1>4 DEF FinishShutdown, Ack
    <2>2. /\ PipesOK' /\ RequestsShrink /\ 1 \in DOMAIN requests /\ Len(requests) \in Nat
          /\ \A t \in Threads :
               calls[t].at \in {"waiting", "closing"} => calls[t].seq \in DOMAIN tasks'
          /\ \A p \in Seen' : p \in Seen \/ (p[1] = requests[1].seq /\ p[2] = answer)
      BY <1>1, <1>4, <2>1, AnsweredSeen
    <2>3. requests' = <<>>
      <3>1. PICK S : requests \in Seq(S)
        BY DEF IInv, RequestsOK
      <3>2. DOMAIN requests = 1 .. Len(requests)
        BY <3>1
      <3>3. Len(requests) \in DOMAIN requests /\ Len(requests) <= 1
        BY <1>2, <2>2, <3>2 DEF XInv, ShutdownIsLast
      <3>4. Len(requests) = 1
        BY <2>2, <3>2, <3>3
      <3>5. requests' = Tail(requests)
        BY <2>1 DEF Answered
      <3>6. Tail(requests) \in Seq(S) /\ Len(Tail(requests)) = Len(requests) - 1
        BY <1>4, <3>1, HeadTailProperties
      <3> QED BY <3>4, <3>5, <3>6, EmptySeq
    <2>4. Grows /\ engine'.run = "exiting" /\ Settled'
      BY <1>1, <2>2, RunChanges DEF Alive
    <2>5. Over'
      BY <1>1, <1>2, <2>3, <2>4 DEF Over
    <2>6. requests[1].ask.type = "shutdown"
      BY <1>2, <2>2
    <2>7. ASSUME NEW r, r = requests[1] PROVE IsTrue(r.by, r.ask, answer)'
      BY <2>1, <2>5, <2>6, <2>7 DEF IsTrue
    <2>8. ASSUME NEW p \in Seen', p \notin Seen
          PROVE  \E r : /\ 1 \in DOMAIN requests /\ r = requests[1] /\ p[1] = r.seq
                        /\ IsTrue(r.by, r.ask, p[2])'
      BY <2>2, <2>7, <2>8
    <2> QED BY <1>1, <2>2, <2>4, <2>5, <2>8, ServeStepX
  <1> QED BY <1>3, <1>4

-----------------------------------------------------------------------------
(* The readers.                                                             *)

\* A task ends, or reads on: what it found was seen before, and one that a
\* call waits for stays.
LEMMA TaskBecomesX ==
  ASSUME XInv, NEW k \in DOMAIN tasks, NEW task, IsTask(task), TaskBecomes(k, task),
         calls' = calls
  PROVE  /\ tasks' = [j \in DOMAIN tasks' |-> tasks'[j]]
         /\ \A j \in DOMAIN tasks' : IsTask(tasks'[j])
         /\ \A j \in DOMAIN tasks' : (j \in DOMAIN tasks /\ tasks'[j] = tasks[j]) \/ tasks'[j] = task
         /\ \A t \in Threads :
              calls[t].at \in {"waiting", "closing"} => calls[t].seq \in DOMAIN tasks'
  <1>1. tasks = [j \in DOMAIN tasks |-> tasks[j]] /\ \A j \in DOMAIN tasks : IsTask(tasks[j])
    BY DEF XInv, PipesOK
  <1>2. \A t \in Threads : calls[t].at \in {"waiting", "closing"} => calls[t].seq \in DOMAIN tasks
    BY DEF XInv, AwaitedOK
  <1>3. CASE tasks' = Without(k) /\ ~Awaited(k)
    <2>1. DOMAIN tasks' = DOMAIN tasks \ {k} /\ \A j \in DOMAIN tasks' : tasks'[j] = tasks[j]
      BY <1>3 DEF Without
    <2>2. tasks' = [j \in DOMAIN tasks' |-> tasks'[j]]
      BY <1>3 DEF Without
    <2>3. \A t \in Threads :
             calls[t].at \in {"waiting", "closing"} => calls[t].seq \in DOMAIN tasks \ {k}
      BY <1>2, <1>3 DEF Awaited
    <2> QED BY <1>1, <2>1, <2>2, <2>3
  <1>4. CASE tasks' = [tasks EXCEPT ![k] = task]
    BY <1>1, <1>2, <1>4
  <1> QED BY <1>3, <1>4 DEF TaskBecomes

LEMMA ReaderX == ASSUME IInv, XInv, NEW k \in DOMAIN tasks, ReaderStep(k) PROVE XInv'
  <1>1. /\ engine' = engine /\ requests' = requests /\ UNCHANGED callerSide
        /\ calls' = calls /\ session' = session
    BY DEF ReaderStep, StartReading, BlockInRead, ReadField, ReadEnd, engineSide, callerSide
  <1>2. Grows /\ RequestsShrink
    BY <1>1 DEF Grows, XInv, NumbersAreOld, Over, Settled, Revision, Alive, RequestsShrink
  <1>3. /\ engine'.run = "stopping" =>
             /\ session.phase \in {"closed", "lost"}
             /\ \A j \in DOMAIN requests' : requests'[j].ask.type = "shutdown"
        /\ engine'.run \in {"exiting", "ended"} => Over'
    BY <1>1, <1>2 DEF XInv, ShutdownIsLast, Grows
  <1>4. IsTask(tasks[k])
    BY DEF XInv, PipesOK
  <1>5. PICK S : answers \in Seq(S)
    BY DEF XInv, PipesOK
  <1>6. CASE answers' = answers /\ \E task : /\ TaskBecomes(k, task) /\ IsTask(task)
                                             /\ task.at # "done"
    <2>1. PICK task : TaskBecomes(k, task) /\ IsTask(task) /\ task.at # "done"
      BY <1>6
    <2>2. /\ tasks' = [j \in DOMAIN tasks' |-> tasks'[j]]
          /\ \A j \in DOMAIN tasks' : IsTask(tasks'[j])
          /\ \A j \in DOMAIN tasks' : (j \in DOMAIN tasks /\ tasks'[j] = tasks[j]) \/ tasks'[j] = task
          /\ \A t \in Threads :
               calls[t].at \in {"waiting", "closing"} => calls[t].seq \in DOMAIN tasks'
      BY <1>1, <2>1, TaskBecomesX
    <2>3. PipesOK'
      BY <1>1, <1>6, <2>2 DEF XInv, PipesOK, IsUnit
    <2>4. \A j \in DOMAIN tasks' :
             tasks'[j].at = "done" => j \in DOMAIN tasks /\ tasks'[j] = tasks[j]
      BY <2>1, <2>2
    <2>5. \A p \in Seen' : p \in Seen
      BY <1>6, <2>4 DEF Seen
    <2> QED BY <1>1, <1>2, <1>3, <2>2, <2>3, <2>5, ServeStepX
  <1>7. CASE ReadField(k)
    <2> DEFINE unit == Head(answers)
    <2>1. PICK task \in AfterField(tasks[k], unit) : TaskBecomes(k, task)
      BY <1>7 DEF ReadField
    <2>2. /\ answers # <<>> /\ answers' = Scrap(tasks[k], unit) \o Tail(answers)
      BY <1>7 DEF ReadField
    <2>3. /\ 1 \in DOMAIN answers /\ unit = answers[1] /\ IsUnit(unit)
          /\ DOMAIN answers = 1 .. Len(answers) /\ Len(answers) \in Nat
          /\ Tail(answers) \in Seq(S) /\ Len(Tail(answers)) = Len(answers) - 1
          /\ \A j \in 1 .. Len(Tail(answers)) : Tail(answers)[j] = answers[j + 1]
      BY <1>5, <2>2, HeadTailProperties DEF XInv, PipesOK
    <2> HIDE DEF unit
    <2>4. IsTask(task) /\ (task.at = "done" => task.seq = unit.seq /\ task.answer = unit.answer)
      <3> DEFINE done == [at |-> "done", seq |-> unit.seq, answer |-> unit.answer]
                 failed == [tasks[k] EXCEPT !.at = "failed"]
                 onward == [tasks[k] EXCEPT !.at = "rest"]
      <3>1. /\ IsTask(done) /\ done.seq = unit.seq /\ done.answer = unit.answer
            /\ IsTask(failed) /\ failed.at = "failed" /\ IsTask(onward) /\ onward.at = "rest"
        BY <1>4 DEF IsTask
      <3>2. task \in {done, failed, onward} \/ (task = tasks[k] /\ tasks[k].at \in {"magic", "rest"})
        <4>1. tasks[k].at \in {"magic", "rest"}
          BY <1>7 DEF ReadField, Reading, Parts, Range
        <4> QED BY <2>1, <4>1 DEF AfterField
      <3> HIDE DEF done, failed, onward
      <3> QED BY <1>4, <3>1, <3>2
    <2>5. /\ tasks' = [j \in DOMAIN tasks' |-> tasks'[j]]
          /\ \A j \in DOMAIN tasks' : IsTask(tasks'[j])
          /\ \A j \in DOMAIN tasks' : (j \in DOMAIN tasks /\ tasks'[j] = tasks[j]) \/ tasks'[j] = task
          /\ \A t \in Threads :
               calls[t].at \in {"waiting", "closing"} => calls[t].seq \in DOMAIN tasks'
      BY <1>1, <2>1, <2>4, TaskBecomesX
    <2>6. PICK scrap : /\ IsUnit(scrap) /\ scrap.seq = unit.seq /\ scrap.answer = unit.answer
                       /\ Scrap(tasks[k], unit) \in {<<scrap>>, <<>>}
      <3> DEFINE s == [unit EXCEPT !.part = "scrap"]
      <3>1. IsUnit(s) /\ s.seq = unit.seq /\ s.answer = unit.answer
        BY <2>3 DEF IsUnit
      <3>2. Scrap(tasks[k], unit) \in {<<s>>, <<>>}
        BY DEF Scrap
      <3> HIDE DEF s
      <3> QED BY <3>1, <3>2
    <2>7. /\ \E V : answers' \in Seq(V)
          /\ \A j \in DOMAIN answers' : \/ answers'[j] = scrap
                                        \/ \E i \in DOMAIN answers : answers'[j] = answers[i]
      <3> DEFINE rest == Tail(answers)  V == S \cup {scrap}
      <3>0. rest \in Seq(V) /\ <<scrap>> \in Seq(V) /\ Len(<<scrap>>) = 1 /\ <<scrap>>[1] = scrap
            /\ Len(rest) = Len(answers) - 1
        BY <2>3
      <3>1. \A j \in DOMAIN rest : \E i \in DOMAIN answers : rest[j] = answers[i]
        <4>1. \A j \in DOMAIN rest : j + 1 \in DOMAIN answers /\ rest[j] = answers[j + 1]
          BY <2>3
        <4> QED BY <4>1
      <3> HIDE DEF rest, V
      <3>2. CASE answers' = <<>> \o rest
        <4>1. answers' = rest
          BY <3>0, <3>2, ConcatEmptySeq
        <4> QED BY <3>0, <3>1, <4>1
      <3>3. CASE answers' = <<scrap>> \o rest
        <4> DEFINE one == <<scrap>>
        <4>0. one \in Seq(V) /\ Len(one) = 1 /\ one[1] = scrap /\ answers' = one \o rest
          BY <3>0, <3>3
        <4> HIDE DEF one
        <4>1. /\ one \o rest \in Seq(V) /\ Len(one \o rest) = Len(one) + Len(rest)
              /\ \A j \in 1 .. Len(one) + Len(rest) :
                   (one \o rest)[j] = IF j <= Len(one) THEN one[j] ELSE rest[j - Len(one)]
          BY ONLY <3>0, <4>0, ConcatProperties, Zenon
        <4>2. /\ answers' \in Seq(V) /\ Len(answers') = 1 + Len(rest)
              /\ \A j \in 1 .. 1 + Len(rest) :
                   answers'[j] = IF j <= 1 THEN one[j] ELSE rest[j - 1]
          BY ONLY <4>0, <4>1, Zenon
        <4>3. ASSUME NEW j \in DOMAIN answers'
              PROVE  answers'[j] = scrap \/ \E i \in DOMAIN answers : answers'[j] = answers[i]
          <5>1. j \in 1 .. 1 + Len(rest) /\ DOMAIN rest = 1 .. Len(rest) /\ Len(rest) \in Nat
            BY <3>0, <4>2
          <5>2. CASE j <= 1
            <6>1. j = 1
              BY <5>1, <5>2
            <6> QED BY <6>1, <4>0, <4>2, <5>1
          <5>3. CASE ~(j <= 1)
            <6>1. j - 1 \in DOMAIN rest /\ answers'[j] = rest[j - 1]
              BY <4>2, <5>1, <5>3
            <6> QED BY <3>1, <6>1
          <5> QED BY <5>2, <5>3
        <4> QED BY <4>2, <4>3
      <3> QED BY <2>2, <2>6, <3>2, <3>3 DEF rest
    <2>8. PipesOK'
      <3>1. \A j \in DOMAIN answers' : IsUnit(answers'[j])
        BY <2>6, <2>7 DEF XInv, PipesOK
      <3> QED BY <1>1, <2>5, <2>7, <3>1 DEF XInv, PipesOK
    <2>9. <<unit.seq, unit.answer>> \in Seen
      BY <2>3 DEF Seen
    <2>10. ASSUME NEW p \in Seen' PROVE p \in Seen
      <3>1. CASE \E j \in DOMAIN answers' : p = <<answers'[j].seq, answers'[j].answer>>
        <4>1. PICK j \in DOMAIN answers' : p = <<answers'[j].seq, answers'[j].answer>>
          BY <3>1
        <4>2. CASE answers'[j] = scrap
          BY <2>6, <2>9, <4>1, <4>2
        <4>3. CASE \E i \in DOMAIN answers : answers'[j] = answers[i]
          BY <4>1, <4>3 DEF Seen
        <4> QED BY <2>7, <4>2, <4>3
      <3>2. CASE \E j \in DOMAIN tasks' :
                   tasks'[j].at = "done" /\ p = <<tasks'[j].seq, tasks'[j].answer>>
        <4>1. PICK j \in DOMAIN tasks' :
                     tasks'[j].at = "done" /\ p = <<tasks'[j].seq, tasks'[j].answer>>
          BY <3>2
        <4>2. CASE tasks'[j] = task
          BY <2>4, <2>9, <4>1, <4>2
        <4>3. CASE j \in DOMAIN tasks /\ tasks'[j] = tasks[j]
          BY <4>1, <4>3 DEF Seen
        <4> QED BY <2>5, <4>2, <4>3
      <3> QED BY <3>1, <3>2 DEF Seen
    <2> QED BY <1>1, <1>2, <1>3, <2>5, <2>8, <2>10, ServeStepX
  <1>8. CASE StartReading(k)
    <2> DEFINE task == [tasks[k] EXCEPT !.at = "magic"]
    <2>1. IsTask(task) /\ task.at = "magic" /\ tasks' = [tasks EXCEPT ![k] = task]
          /\ answers' = answers
      BY <1>4, <1>8 DEF StartReading, IsTask, engineSide
    <2>2. TaskBecomes(k, task)
      BY <2>1 DEF TaskBecomes
    <2> QED BY <2>1, <2>2, <1>6
  <1>9. CASE ReadEnd(k)
    <2> DEFINE task == [tasks[k] EXCEPT !.at = "failed"]
    <2>1. IsTask(task) /\ task.at = "failed" /\ TaskBecomes(k, task) /\ answers' = answers
      BY <1>4, <1>9 DEF ReadEnd, IsTask, engineSide
    <2> QED BY <2>1, <1>6
  <1>10. CASE BlockInRead(k)
    <2>1. tasks' = tasks /\ answers' = answers
      BY <1>10 DEF BlockInRead, engineSide
    <2>2. PipesOK' /\ Seen' = Seen
      BY <1>1, <2>1 DEF XInv, PipesOK, IsUnit, IsTask, Seen
    <2>3. \A t \in Threads :
             calls[t].at \in {"waiting", "closing"} => calls[t].seq \in DOMAIN tasks'
      BY <2>1 DEF XInv, AwaitedOK
    <2> QED BY <1>1, <1>2, <1>3, <2>2, <2>3, ServeStepX
  <1> QED BY <1>7, <1>8, <1>9, <1>10 DEF ReaderStep

-----------------------------------------------------------------------------
(* The callers.                                                             *)

\* One call goes on; the engine stands still or is killed.
LEMMA CallStepX ==
  ASSUME IInv, XInv, NEW t \in Threads, NEW c, calls' = [calls EXCEPT ![t] = c],
         c.known \in Nat, c.ask.arg \in Nat, c.result.ask.arg \in Nat,
         Grows, RequestsShrink, PipesOK', \A p \in Seen' : p \in Seen,
         session.next <= session'.next,
         session.phase \in {"closed", "lost"} => session'.phase \in {"closed", "lost"},
         engine'.run \in {engine.run, "gone"},
         \A u \in Threads \ {t} :
            calls[u].at \in {"waiting", "closing"} => calls[u].seq \in DOMAIN tasks',
         \A u \in Threads : PhaseOK(u)',
         AwaitedOK(t)', ResultOK(t, c.result)'
  PROVE  XInv'
  <1>1. calls'[t] = c /\ \A u \in Threads \ {t} : calls'[u] = calls[u]
    BY CallIsRecord
  <1>2. PICK n \in Nat : \A j \in DOMAIN requests' :
                j + n \in DOMAIN requests /\ requests'[j] = requests[j + n]
    BY StillOld
  <1>3. session.next \in Nat /\ session'.next \in Nat
    BY DEF XInv, PipesOK
  <1>4. NumbersAreOld'
    <2>1. \A j \in DOMAIN requests' : /\ requests'[j].ask.arg \in Nat
                                      /\ requests'[j].seq \in Nat
                                      /\ requests'[j].seq < session'.next
      BY <1>2, <1>3 DEF XInv, NumbersAreOld
    <2>2. \A p \in Seen' : p[1] \in Nat /\ p[1] < session'.next
      BY <1>3 DEF XInv, NumbersAreOld
    <2>3. engine'.durable \in Nat
      BY DEF Grows
    <2> QED BY <2>1, <2>2, <2>3 DEF NumbersAreOld
  <1>5. ShutdownIsLast'
    <2>1. ASSUME NEW i \in DOMAIN requests', NEW j \in DOMAIN requests',
                 requests'[i].ask.type = "shutdown"
          PROVE  j <= i /\ session'.phase \in {"closed", "lost"}
      <3>1. /\ i + n \in DOMAIN requests /\ j + n \in DOMAIN requests
            /\ requests[i + n].ask.type = "shutdown"
        BY <1>2, <2>1
      <3>2. j + n <= i + n /\ session.phase \in {"closed", "lost"}
        BY <3>1 DEF XInv, ShutdownIsLast
      <3>3. i \in Nat /\ j \in Nat
        BY StillOld
      <3> QED BY <3>2, <3>3
    <2>2. engine'.run = "stopping" =>
             /\ session'.phase \in {"closed", "lost"}
             /\ \A j \in DOMAIN requests' : requests'[j].ask.type = "shutdown"
      BY <1>2 DEF XInv, ShutdownIsLast
    <2>3. engine'.run \in {"exiting", "ended"} => Over'
      BY DEF XInv, ShutdownIsLast, Grows
    <2> QED BY <2>1, <2>2, <2>3 DEF ShutdownIsLast
  <1>6. NumbersOK(t)' /\ AwaitedOK(t)' /\ ResultOK(t, calls[t].result)'
    BY <1>1 DEF NumbersOK, ResultOK, Applied, Over, Settled, Revision, Alive
  <1>7. ASSUME NEW u \in Threads \ {t}
        PROVE  (NumbersOK(u) /\ AwaitedOK(u) /\ ResultOK(u, calls[u].result))'
    <2>0. NumbersOK(u) /\ AwaitedOK(u) /\ ResultOK(u, calls[u].result)
      BY DEF XInv
    <2>1. NumbersOK(u)'
      BY <1>1, <2>0 DEF NumbersOK
    <2>2. ResultOK(u, calls[u].result)'
      <3>1. ASSUME NEW r, r = calls[u].result PROVE ResultOK(u, r)'
        BY <2>0, <3>1, ResultStays DEF NumbersOK
      <3> QED BY <1>1, <3>1 DEF ResultOK
    <2>3. calls'[u].at = "exiting" => Over'
      BY <1>1, <2>0 DEF AwaitedOK, Grows
    <2>4. ASSUME calls[u].at \in {"waiting", "closing"}, NEW j \in DOMAIN requests',
                 requests'[j].seq = calls[u].seq
          PROVE  requests'[j].by = u /\ requests'[j].ask = calls[u].ask
      BY <1>2, <2>0, <2>4 DEF AwaitedOK
    <2>5. ASSUME calls[u].at \in {"waiting", "closing"}, NEW p \in Seen', p[1] = calls[u].seq,
                 NEW ask, ask = calls[u].ask
          PROVE  IsTrue(u, ask, p[2])'
      <3>1. IsTrue(u, ask, p[2])
        BY <2>0, <2>5 DEF AwaitedOK
      <3> QED BY <3>1, TrueStays
    <2>6. AwaitedOK(u)'
      BY <1>1, <2>3, <2>4, <2>5 DEF AwaitedOK
    <2> QED BY <2>1, <2>2, <2>6
  <1> QED BY <1>4, <1>5, <1>6, <1>7 DEF XInv

\* What a call does to the pipes and to the engine's process.
LEMMA CallPipesX ==
  ASSUME IInv, XInv, NEW k, tasks' \in {tasks, Without(k)}, Kill \/ UNCHANGED engineSide,
         session' \in [phase : {session'.phase}, next : Nat],
         session.phase \in {"closed", "lost"} => session'.phase \in {"closed", "lost"}
  PROVE  /\ Grows /\ RequestsShrink /\ PipesOK' /\ \A p \in Seen' : p \in Seen
         /\ engine'.run \in {engine.run, "gone"}
  <1>1. /\ engine'.run \in {engine.run, "gone"} /\ engine'.ledger = engine.ledger
        /\ engine'.durable = engine.durable /\ engine'.failed = engine.failed
        /\ answers' \in {answers, <<>>} /\ requests' \in {requests, <<>>}
    BY DEF IInv, EngineOK, Kill, engineSide
  <1>2. Settled' <=> Settled
    BY <1>1 DEF Settled, Revision
  <1>3. Over => Over'
    BY <1>1, <1>2 DEF Over
  <1>4. Grows /\ RequestsShrink
    BY <1>1, <1>3 DEF Grows, XInv, NumbersAreOld, Alive, RequestsShrink
  <1>5. /\ \E S : answers' \in Seq(S)
        /\ \A j \in DOMAIN answers' : j \in DOMAIN answers /\ answers'[j] = answers[j]
    <2>1. CASE answers' = answers
      BY <2>1 DEF XInv, PipesOK
    <2>2. CASE answers' = <<>>
      <3>1. answers' \in Seq({}) /\ DOMAIN answers' = {}
        BY <2>2
      <3> QED BY <3>1
    <2> QED BY <1>1, <2>1, <2>2
  <1>6. /\ tasks' = [j \in DOMAIN tasks' |-> tasks'[j]]
        /\ \A j \in DOMAIN tasks' : j \in DOMAIN tasks /\ tasks'[j] = tasks[j]
    BY DEF Without, XInv, PipesOK
  <1>7. PipesOK'
    <2>1. \A j \in DOMAIN answers' : IsUnit(answers'[j])
      BY <1>5 DEF XInv, PipesOK
    <2>2. \A j \in DOMAIN tasks' : IsTask(tasks'[j])
      BY <1>6 DEF XInv, PipesOK
    <2> QED BY <1>5, <1>6, <2>1, <2>2 DEF PipesOK
  <1>8. \A p \in Seen' : p \in Seen
    BY <1>5, <1>6 DEF Seen
  <1> QED BY <1>1, <1>4, <1>7, <1>8

\* A call returns: what it reports was true, and the others are not disturbed.
LEMMA ReturnsX ==
  ASSUME IInv, XInv, NEW t \in Threads, NEW ok \in BOOLEAN, NEW value, Returns(t, ok, value),
         calls[t].at # "idle",
         Kill \/ UNCHANGED engineSide,
         \/ tasks' = tasks
         \/ calls[t].at \in {"waiting", "closing"} /\ tasks' = Without(calls[t].seq),
         session' \in [phase : {session'.phase}, next : Nat], session.next <= session'.next,
         \/ session'.phase = session.phase
         \/ calls[t].ask.type = "hello"
         \/ session.phase = "open" /\ session'.phase = "closed",
         lock' = lock \/ (lock' = {} /\ calls[t].at \in {"waiting", "closing", "exiting"}),
         NEW r, r = Outcome(calls[t].ask, ok, value), ResultOK(t, r),
         ok /\ calls[t].ask.type \in {"state", "edit"} => value \in Nat
  PROVE  XInv'
  <1> DEFINE ask == calls[t].ask
             result == IF (ok /\ ask.type \in {"save", "poll", "shutdown"}) \/ ask.type = "edit"
                       THEN Outcome(ask, ok, value) ELSE Outcome(NoAsk, FALSE, 0)
             known == IF ok /\ ask.type \in {"state", "edit"} THEN value ELSE calls[t].known
             c == [calls[t] EXCEPT !.at = "idle", !.ask = NoAsk, !.seq = 0, !.result = result,
                                   !.known = known]
  <1>0. IsCall(calls[t]) /\ NumbersOK(t) /\ PhaseOK(t)
    BY CallIsRecord DEF XInv
  <1>1. calls' = [calls EXCEPT ![t] = c]
    BY DEF Returns
  <1>2. known \in Nat
    BY <1>0 DEF NumbersOK
  <1>3. /\ \/ result = r
           \/ ~result.ok /\ result.ask = NoAsk
        /\ result.ask.arg \in Nat
    <2>1. ~Outcome(NoAsk, FALSE, 0).ok /\ Outcome(NoAsk, FALSE, 0).ask = NoAsk /\ NoAsk.arg = 0
      BY DEF Outcome, NoAsk, Ask
    <2>2. r.ask.arg \in Nat
      BY <1>0 DEF NumbersOK, Outcome
    <2>3. result = r \/ result = Outcome(NoAsk, FALSE, 0)
      BY Zenon
    <2> HIDE DEF result
    <2>4. CASE result = r
      BY <2>2, <2>4
    <2>5. CASE result = Outcome(NoAsk, FALSE, 0)
      <3>1. ~result.ok /\ result.ask = NoAsk
        BY ONLY <2>1, <2>5, Zenon
      <3> QED BY <2>1, <3>1
    <2> QED BY <2>3, <2>4, <2>5
  <1>4. ResultOK(t, result)
    BY <1>3 DEF ResultOK
  <1> HIDE DEF result, known
  <1>5. /\ c.at = "idle" /\ c.ask = NoAsk /\ c.result = result /\ c.known = known
        /\ c.ask.arg = 0
    BY <1>0 DEF IsCall, NoAsk, Ask
  <1> HIDE DEF c
  <1>12. PICK d : d = c
    OBVIOUS
  <1>6. calls'[t] = d /\ \A u \in Threads \ {t} : calls'[u] = calls[u]
    BY <1>1, <1>12, CallIsRecord
  <1>7. session.phase \in {"closed", "lost"} => session'.phase \in {"closed", "lost"}
    BY <1>0 DEF PhaseOK
  <1>8. /\ Grows /\ RequestsShrink /\ PipesOK' /\ \A p \in Seen' : p \in Seen
        /\ engine'.run \in {engine.run, "gone"}
    BY <1>7, CallPipesX
  <1>9. ASSUME NEW u \in Threads \ {t}
        PROVE  /\ PhaseOK(u)'
               /\ calls[u].at \in {"waiting", "closing"} => calls[u].seq \in DOMAIN tasks'
    <2>0. PhaseOK(u) /\ AwaitedOK(u)
      BY DEF XInv
    <2>1. calls[u].at \in {"waiting", "closing", "exiting"} =>
             lock = {u} /\ ~(calls[t].at \in {"waiting", "closing", "exiting"})
      BY <1>0, <2>0 DEF PhaseOK
    <2>2. calls[u].at \in {"waiting", "closing"} => calls[u].seq \in DOMAIN tasks'
      BY <2>0, <2>1 DEF AwaitedOK
    <2>3. CASE session'.phase = session.phase
      <3>1. \A w \in Threads : calls[w].at = "idle" => calls'[w].at = "idle"
        BY <1>5, <1>6, <1>12
      <3> QED BY <1>6, <2>0, <2>1, <2>2, <2>3, <3>1 DEF PhaseOK
    <2>4. CASE calls[t].ask.type = "hello"
      <3>1. calls[u].at = "idle"
        BY <1>0, <2>4 DEF PhaseOK
      <3> QED BY <1>6, <2>2, <3>1 DEF PhaseOK
    <2>5. CASE session.phase = "open" /\ session'.phase = "closed"
      BY <1>6, <2>0, <2>1, <2>2, <2>5 DEF PhaseOK
    <2> QED BY <2>3, <2>4, <2>5
  <1>10. PhaseOK(t)' /\ AwaitedOK(t)'
    BY <1>5, <1>6, <1>12 DEF PhaseOK, AwaitedOK
  <1>11. ResultOK(t, d.result)'
    <2>1. d.result = result /\ d.result.ask.arg \in Nat
      BY <1>3, <1>5, <1>12
    <2>2. ResultOK(t, d.result)
      BY <1>4, <2>1
    <2> QED BY <1>8, <2>1, <2>2, ResultStays
  <1>13. /\ calls' = [calls EXCEPT ![t] = d]
         /\ d.known \in Nat /\ d.ask.arg \in Nat /\ d.result.ask.arg \in Nat
    BY <1>1, <1>2, <1>3, <1>5, <1>12
  <1> QED BY <1>7, <1>8, <1>9, <1>10, <1>11, <1>13, CallStepX

LEMMA FailsX ==
  ASSUME IInv, XInv, NEW t \in Threads, NEW kill, Fails(t, kill),
         calls[t].at \in {"waiting", "closing", "exiting"},
         \/ tasks' = tasks
         \/ calls[t].at \in {"waiting", "closing"} /\ tasks' = Without(calls[t].seq)
  PROVE  XInv'
  <1>1. Returns(t, FALSE, 0) /\ (Kill \/ UNCHANGED engineSide) /\ lock' = {}
    BY DEF Fails
  <1>2. /\ session' \in [phase : {session'.phase}, next : Nat] /\ session'.next = session.next
        /\ session'.phase = session.phase \/ calls[t].ask.type = "hello"
    BY DEF Fails, XInv, PipesOK
  <1>3. session.next <= session'.next
    BY <1>2
  <1>4. PICK r : r = Outcome(calls[t].ask, FALSE, 0)
    OBVIOUS
  <1>5. ResultOK(t, r)
    BY <1>4 DEF ResultOK, Outcome
  <1> QED BY <1>1, <1>2, <1>3, <1>4, <1>5, ReturnsX

\* A call that ends without an exchange, or after the one that was acknowledged.
LEMMA EndsX ==
  ASSUME IInv, XInv, NEW t \in Threads,
         SeeExit(t) \/ TimeOut(t) \/ ExitTimesOut(t) \/ GiveUpPolling(t) \/ Interrupt(t)
  PROVE  XInv'
  <1>1. CASE TimeOut(t) \/ Interrupt(t)
    <2>1. calls[t].at \in {"waiting", "closing"} /\ Cancelled(calls[t].seq)
      BY <1>1 DEF TimeOut, Interrupt
    <2>2. tasks' = tasks \/ tasks' = Without(calls[t].seq)
      BY <2>1 DEF Cancelled
    <2>3. PICK kill : Fails(t, kill)
      BY <1>1 DEF TimeOut, Interrupt
    <2> QED BY <2>1, <2>2, <2>3, FailsX
  <1>2. CASE ExitTimesOut(t)
    <2>1. calls[t].at = "exiting" /\ Fails(t, TRUE) /\ tasks' = tasks
      BY <1>2 DEF ExitTimesOut, readerSide
    <2> QED BY <2>1, FailsX
  <1>3. session \in [phase : {session.phase}, next : Nat] /\ session.next <= session.next
    BY DEF XInv, PipesOK
  <1>4. CASE GiveUpPolling(t)
    <2>1. /\ Returns(t, FALSE, 0) /\ calls[t].at # "idle" /\ UNCHANGED engineSide
          /\ tasks' = tasks /\ lock' = lock /\ session' = session
      BY <1>4 DEF GiveUpPolling, readerSide
    <2>2. PICK r : r = Outcome(calls[t].ask, FALSE, 0)
      OBVIOUS
    <2>3. ResultOK(t, r)
      BY <2>2 DEF ResultOK, Outcome
    <2> QED BY <1>3, <2>1, <2>2, <2>3, ReturnsX
  <1>5. CASE SeeExit(t)
    <2>1. /\ Returns(t, TRUE, 0) /\ calls[t].at = "exiting" /\ UNCHANGED engineSide
          /\ tasks' = tasks /\ lock' = {} /\ session' = session /\ ~Alive
      BY <1>5 DEF SeeExit, readerSide
    <2>2. Over /\ calls[t].ask.type = "shutdown"
      BY <2>1 DEF XInv, AwaitedOK, PhaseOK
    <2>3. PICK r : r = Outcome(calls[t].ask, TRUE, 0)
      OBVIOUS
    <2>4. r.ask.type = "shutdown"
      BY <2>2, <2>3 DEF Outcome
    <2>5. ResultOK(t, r)
      BY <2>1, <2>2, <2>4 DEF ResultOK
    <2> QED BY <1>3, <2>1, <2>2, <2>3, <2>5, ReturnsX
  <1> QED BY <1>1, <1>2, <1>4, <1>5

\* Where a call is, and what it asks; nothing else moves but the lock and the tasks.
LEMMA MovesX ==
  ASSUME IInv, XInv, NEW t \in Threads, NEW c, calls' = [calls EXCEPT ![t] = c],
         UNCHANGED <<engineSide, session>>,
         c.known = calls[t].known, c.ask.arg \in Nat, c.result.ask.arg \in Nat,
         ResultOK(t, c.result),
         \/ tasks' = tasks
         \/ calls[t].at \in {"waiting", "closing"} /\ tasks' = Without(calls[t].seq),
         lock' = lock \/ (lock' = {} /\ calls[t].at \in {"waiting", "closing", "exiting"}),
         calls[t].at = "idle" => c.ask.type # "hello" \/ \A u \in Threads : calls[u].at = "idle",
         calls[t].at = "idle" /\ c.ask.type # "hello" => session.phase \in {"open", "closed"},
         calls[t].at # "idle" => (c.ask.type = "hello" <=> calls[t].ask.type = "hello"),
         PhaseOK(t)', c.at \notin {"waiting", "closing"}, c.at = "exiting" => Over
  PROVE  XInv'
  <1>1. calls'[t] = c /\ \A u \in Threads \ {t} : calls'[u] = calls[u]
    BY CallIsRecord
  <1>2. session' = session /\ UNCHANGED engineSide
    OBVIOUS
  <1>3. session' \in [phase : {session'.phase}, next : Nat] /\ session.next <= session'.next
    BY <1>2 DEF XInv, PipesOK
  <1>4. /\ Grows /\ RequestsShrink /\ PipesOK' /\ \A p \in Seen' : p \in Seen
        /\ engine'.run \in {engine.run, "gone"}
    BY <1>2, <1>3, CallPipesX
  <1>5. ASSUME NEW u \in Threads \ {t}
        PROVE  /\ PhaseOK(u)'
               /\ calls[u].at \in {"waiting", "closing"} => calls[u].seq \in DOMAIN tasks'
    <2>0. PhaseOK(u) /\ AwaitedOK(u) /\ PhaseOK(t)
      BY DEF XInv
    <2>1. calls[u].at \in {"waiting", "closing", "exiting"} =>
             lock = {u} /\ ~(calls[t].at \in {"waiting", "closing", "exiting"})
      BY <2>0 DEF PhaseOK
    <2>2. calls[u].at \in {"waiting", "closing"} => calls[u].seq \in DOMAIN tasks'
      BY <2>0, <2>1 DEF AwaitedOK
    <2>3. ASSUME calls[u].at # "idle", calls[u].ask.type = "hello" PROVE FALSE
      <3>1. calls[t].at = "idle" /\ session.phase = "launching"
        BY <2>0, <2>3 DEF PhaseOK
      <3> QED BY <2>3, <3>1
    <2>5. calls'[u] = calls[u] /\ session' = session
      BY <1>1, <1>2
    <2>6. calls'[u].at \in {"waiting", "closing", "exiting"} => lock' = {u}
      BY <2>1, <2>5
    <2>7. PhaseOK(u)'
      BY <2>0, <2>3, <2>5, <2>6 DEF PhaseOK
    <2> QED BY <2>2, <2>7
  <1>6. AwaitedOK(t)'
    BY <1>1, <1>4 DEF AwaitedOK, Grows
  <1>7. ResultOK(t, c.result)'
    BY <1>4, ResultStays
  <1>8. c.known \in Nat
    BY DEF XInv, NumbersOK
  <1> QED BY <1>2, <1>3, <1>4, <1>5, <1>6, <1>7, <1>8, CallStepX

\* A request is written: its number is new, so no answer with it is anywhere.
LEMMA SubmitX ==
  ASSUME IInv, XInv, NEW t \in Threads, NEW at, Submit(t, session.next, at),
         calls[t].at = "calling", lock = {}, session.phase # "closed",
         UNCHANGED <<engine, answers>>,
         session' \in [phase : {session'.phase}, next : Nat], session'.next = session.next + 1,
         \/ at = "waiting" /\ calls[t].ask.type # "shutdown" /\ session'.phase = session.phase
         \/ at = "closing" /\ calls[t].ask.type = "shutdown" /\ session'.phase = "closed"
  PROVE  XInv'
  <1> DEFINE ask == calls[t].ask
             seq == session.next
             n == IF ask.type = "edit" THEN ask.intent ELSE calls[t].intents
             c == [calls[t] EXCEPT !.at = at, !.seq = seq, !.intents = n]
             new == [seq |-> seq, ask |-> ask, by |-> t]
  <1>0. /\ IsCall(calls[t]) /\ NumbersOK(t) /\ PhaseOK(t) /\ AwaitedOK(t)
        /\ ResultOK(t, calls[t].result)
    BY CallIsRecord DEF XInv
  <1>1. calls' = [calls EXCEPT ![t] = c] /\ requests' = Append(requests, new) /\ lock' = {t}
    BY DEF Submit
  <1> HIDE DEF n
  <1>2. /\ c.at = at /\ c.seq = seq /\ c.ask = ask /\ c.known = calls[t].known
        /\ c.result = calls[t].result
    BY <1>0 DEF IsCall
  <1> HIDE DEF c
  <1>3. calls'[t] = c /\ \A u \in Threads \ {t} : calls'[u] = calls[u]
    BY <1>1, CallIsRecord
  <1>4. new.seq = seq /\ new.ask = ask /\ new.by = t
    OBVIOUS
  <1> HIDE DEF new
  <1>5. \A j \in DOMAIN requests' : /\ j <= Len(requests) + 1
                                    /\ \/ j \in DOMAIN requests /\ requests'[j] = requests[j]
                                       \/ requests'[j] = new /\ j = Len(requests) + 1
    <2>1. PICK S : requests \in Seq(S)
      BY DEF IInv, RequestsOK
    <2>2. requests \in Seq(S \cup {new})
      BY <2>1
    <2>3. /\ requests' \in Seq(S \cup {new}) /\ Len(requests') = Len(requests) + 1
          /\ \A j \in 1 .. Len(requests) : requests'[j] = requests[j]
          /\ requests'[Len(requests) + 1] = new
      BY <1>1, <2>2, AppendProperties
    <2> QED BY <2>1, <2>3
  <1>6. ~Over /\ engine.run \notin {"stopping", "exiting", "ended"}
        /\ \A j \in DOMAIN requests : requests[j].ask.type # "shutdown"
    <2>1. session.phase \notin {"closed", "lost"}
      BY <1>0 DEF PhaseOK
    <2> QED BY <2>1 DEF Over, XInv, ShutdownIsLast
  <1>7. seq \in Nat /\ session'.next = seq + 1
    BY DEF XInv, PipesOK
  <1>8. /\ tasks' = [k \in DOMAIN tasks' |-> tasks'[k]] /\ seq \in DOMAIN tasks'
        /\ \A k \in DOMAIN tasks' : /\ IsTask(tasks'[k])
                                    /\ tasks'[k].at = "done" =>
                                         k \in DOMAIN tasks /\ tasks'[k] = tasks[k]
    <2> DEFINE task == [at |-> "queued", seq |-> 0, answer |-> Nothing]
    <2>1. IsTask(task) /\ task.at = "queued"
      BY DEF IsTask
    <2>2. tasks' = [k \in DOMAIN tasks \cup {seq} |-> IF k = seq THEN task ELSE tasks[k]]
      BY DEF Submit
    <2> HIDE DEF task
    <2>3. \A k \in DOMAIN tasks : IsTask(tasks[k])
      BY DEF XInv, PipesOK
    <2> QED BY <2>1, <2>2, <2>3
  <1>9. PipesOK'
    BY <1>8 DEF XInv, PipesOK
  <1>10. \A p \in Seen' : p \in Seen
    BY <1>8 DEF Seen
  <1>11. Grows
    BY <1>6 DEF Grows, XInv, NumbersAreOld, Alive
  <1>12. NumbersAreOld'
    <2>1. \A j \in DOMAIN requests' : /\ requests'[j].ask.arg \in Nat
                                      /\ requests'[j].seq \in Nat
                                      /\ requests'[j].seq < session'.next
      BY <1>0, <1>4, <1>5, <1>7 DEF XInv, NumbersAreOld, NumbersOK
    <2>2. \A p \in Seen' : p[1] \in Nat /\ p[1] < session'.next
      BY <1>7, <1>10 DEF XInv, NumbersAreOld
    <2>3. engine'.durable \in Nat
      BY <1>11 DEF Grows
    <2> QED BY <2>1, <2>2, <2>3 DEF NumbersAreOld
  <1>13. ShutdownIsLast'
    <2>1. ASSUME NEW i \in DOMAIN requests', NEW j \in DOMAIN requests',
                 requests'[i].ask.type = "shutdown"
          PROVE  j <= i /\ session'.phase \in {"closed", "lost"}
      <3>1. requests'[i] = new /\ i = Len(requests) + 1
        BY <1>5, <1>6, <2>1
      <3> QED BY <1>4, <1>5, <2>1, <3>1
    <2>2. engine' = engine
      OBVIOUS
    <2> QED BY <1>6, <2>1, <2>2 DEF ShutdownIsLast
  <1>14. AwaitedOK(t)'
    <2>1. ASSUME NEW j \in DOMAIN requests', requests'[j].seq = seq
          PROVE  requests'[j].by = t /\ requests'[j].ask = ask
      <3>1. ~(j \in DOMAIN requests /\ requests'[j] = requests[j])
        BY <1>7, <2>1 DEF XInv, NumbersAreOld
      <3> QED BY <1>4, <1>5, <3>1
    <2>2. \A p \in Seen' : p[1] # seq
      BY <1>7, <1>10 DEF XInv, NumbersAreOld
    <2> QED BY <1>2, <1>3, <1>8, <2>1, <2>2 DEF AwaitedOK
  <1>15. NumbersOK(t)' /\ PhaseOK(t)'
    BY <1>0, <1>1, <1>2, <1>3 DEF NumbersOK, PhaseOK
  <1>16. ResultOK(t, calls[t].result)'
    <2>1. PICK r : r = calls[t].result
      OBVIOUS
    <2>2. ResultOK(t, r)' /\ calls'[t].result = r
      BY <1>0, <1>2, <1>3, <1>11, <2>1, ResultStays DEF NumbersOK
    <2> QED BY <2>2 DEF ResultOK
  <1>17. ASSUME NEW u \in Threads \ {t}
         PROVE  (NumbersOK(u) /\ PhaseOK(u) /\ AwaitedOK(u) /\ ResultOK(u, calls[u].result))'
    <2>0. NumbersOK(u) /\ PhaseOK(u) /\ AwaitedOK(u) /\ ResultOK(u, calls[u].result)
      BY DEF XInv
    <2>1. calls[u].at \notin {"waiting", "closing", "exiting"}
      BY <2>0 DEF PhaseOK
    <2>2. PICK r : r = calls[u].result
      OBVIOUS
    <2>3. ResultOK(u, r)' /\ calls'[u].result = r
      BY <1>3, <1>11, <2>0, <2>2, ResultStays DEF NumbersOK
    <2>4. ~(calls[u].at # "idle" /\ calls[u].ask.type = "hello")
      BY <2>0 DEF PhaseOK
    <2>5. NumbersOK(u)' /\ PhaseOK(u)' /\ AwaitedOK(u)'
      BY <1>3, <2>0, <2>1, <2>4 DEF NumbersOK, PhaseOK, AwaitedOK
    <2> QED BY <2>3, <2>5 DEF ResultOK
  <1> QED BY <1>9, <1>12, <1>13, <1>14, <1>15, <1>16, <1>17 DEF XInv

LEMMA SendX == ASSUME IInv, XInv, NEW t \in Threads, Send(t) \/ SendShutdown(t) PROVE XInv'
  <1>1. calls[t].at = "calling" /\ lock = {}
    BY DEF Send, SendShutdown
  <1>2. session \in [phase : {session.phase}, next : Nat] /\ PhaseOK(t)
    BY DEF XInv, PipesOK
  <1>3. CASE Send(t) /\ session.phase # "closed" /\ Alive
    <2>1. /\ Submit(t, session.next, "waiting") /\ calls[t].ask.type # "shutdown"
          /\ session' = [session EXCEPT !.next = session.next + 1] /\ UNCHANGED <<engine, answers>>
      BY <1>3 DEF Send
    <2>2. /\ session' \in [phase : {session'.phase}, next : Nat]
          /\ session'.next = session.next + 1 /\ session'.phase = session.phase
      BY <1>2, <2>1
    <2> QED BY <1>1, <1>3, <2>1, <2>2, SubmitX
  <1>4. CASE SendShutdown(t) /\ session.phase # "closed" /\ Alive
    <2>1. /\ Submit(t, session.next, "closing") /\ calls[t].ask.type = "shutdown"
          /\ session' = [phase |-> "closed", next |-> session.next + 1]
          /\ UNCHANGED <<engine, answers>>
      BY <1>4 DEF SendShutdown
    <2>2. /\ session' \in [phase : {session'.phase}, next : Nat]
          /\ session'.next = session.next + 1 /\ session'.phase = "closed"
      BY <1>2, <2>1
    <2> QED BY <1>1, <1>4, <2>1, <2>2, SubmitX
  <1>5. CASE Send(t) /\ ~(session.phase # "closed" /\ Alive)
    <2>1. /\ Returns(t, FALSE, 0) /\ UNCHANGED engineSide /\ tasks' = tasks /\ lock' = lock
          /\ session' = IF calls[t].ask.type = "hello"
                        THEN [session EXCEPT !.phase = "failed"] ELSE session
      BY <1>5 DEF Send, readerSide
    <2>2. /\ session' \in [phase : {session'.phase}, next : Nat] /\ session.next <= session'.next
          /\ session'.phase = session.phase \/ calls[t].ask.type = "hello"
      BY <1>2, <2>1
    <2>3. PICK r : r = Outcome(calls[t].ask, FALSE, 0)
      OBVIOUS
    <2>4. ResultOK(t, r)
      BY <2>3 DEF ResultOK, Outcome
    <2> QED BY <1>1, <2>1, <2>2, <2>3, <2>4, ReturnsX
  <1>6. CASE SendShutdown(t) /\ session.phase # "closed" /\ ~Alive
    <2>1. /\ Returns(t, FALSE, 0) /\ UNCHANGED engineSide /\ tasks' = tasks /\ lock' = lock
          /\ session' = [phase |-> "closed", next |-> session.next + 1]
          /\ calls[t].ask.type = "shutdown"
      BY <1>6 DEF SendShutdown, readerSide
    <2>2. /\ session' \in [phase : {session'.phase}, next : Nat] /\ session.next <= session'.next
          /\ session.phase = "open" /\ session'.phase = "closed"
      BY <1>1, <1>2, <1>6, <2>1 DEF PhaseOK
    <2>3. PICK r : r = Outcome(calls[t].ask, FALSE, 0)
      OBVIOUS
    <2>4. ResultOK(t, r)
      BY <2>3 DEF ResultOK, Outcome
    <2> QED BY <1>1, <2>1, <2>2, <2>3, <2>4, ReturnsX
  <1>7. CASE SendShutdown(t) /\ session.phase = "closed"
    <2>1. /\ Returns(t, TRUE, 1) /\ UNCHANGED engineSide /\ tasks' = tasks /\ lock' = lock
          /\ session' = session /\ calls[t].ask.type = "shutdown"
      BY <1>7 DEF SendShutdown, readerSide
    <2>2. session' \in [phase : {session'.phase}, next : Nat] /\ session.next <= session'.next
      BY <1>2, <2>1
    <2>3. PICK r : r = Outcome(calls[t].ask, TRUE, 1)
      OBVIOUS
    <2>4. r.ask.type = "shutdown" /\ r.value = 1
      BY <2>1, <2>3 DEF Outcome
    <2>5. ResultOK(t, r)
      BY <2>4 DEF ResultOK
    <2> QED BY <1>1, <2>1, <2>2, <2>3, <2>5, ReturnsX
  <1> QED BY <1>3, <1>4, <1>5, <1>6, <1>7

\* What its own answer tells the call is what it returns.
LEMMA ReceiveX == ASSUME IInv, XInv, NEW t \in Threads, Receive(t) PROVE XInv'
  <1> DEFINE k == calls[t].seq  task == tasks[k]  ask == calls[t].ask  value == task.answer.value
  <1>1. /\ calls[t].at = "waiting" /\ tasks' = Without(k) /\ k \in DOMAIN tasks
        /\ PhaseOK(t) /\ NumbersOK(t)
    BY DEF Receive, XInv, AwaitedOK
  <1>2. CASE Fails(t, FALSE)
    BY <1>1, <1>2, FailsX
  <1>3. CASE Accepts(t, task) /\ Continue(t, value)
    <2>1. /\ lock' = {} /\ UNCHANGED engineSide /\ ask.type # "shutdown"
          /\ task.at = "done" /\ task.seq = k
          /\ (ask.type # "hello" => task.answer.type = "ack")
      BY <1>1, <1>3 DEF Continue, Accepts, PhaseOK
    <2>2. session \in [phase : {session.phase}, next : Nat]
      BY DEF XInv, PipesOK
    <2>3. IsTrue(t, ask, task.answer)
      <3>1. <<task.seq, task.answer>> \in Seen
        BY <1>1, <2>1 DEF Seen
      <3> QED BY <1>1, <2>1, <3>1 DEF XInv, AwaitedOK
    <2>4. CASE ask.type = "hello"
      <3>1. session' = [session EXCEPT !.phase = "open"] /\ Returns(t, TRUE, value)
        BY <1>3, <2>4 DEF Continue
      <3>2. session' \in [phase : {session'.phase}, next : Nat] /\ session.next <= session'.next
        BY <2>2, <3>1
      <3>3. PICK r : r = Outcome(ask, TRUE, value)
        OBVIOUS
      <3>4. r.ask.type = "hello"
        BY <2>4, <3>3 DEF Outcome
      <3>5. ResultOK(t, r)
        BY <3>4 DEF ResultOK
      <3> HIDE DEF value
      <3> QED BY <1>1, <2>1, <2>4, <3>1, <3>2, <3>3, <3>5, ReturnsX
    <2>5. CASE ask.type \in {"save", "poll"} /\ (ask.type = "poll" => value = 0)
      <3>1. session' = session /\ calls' = [calls EXCEPT ![t].at = "between"]
        BY <1>3, <2>5 DEF Continue
      <3> DEFINE c == [calls[t] EXCEPT !.at = "between"]
      <3>2. /\ c.at = "between" /\ c.ask = ask /\ c.known = calls[t].known
            /\ c.result = calls[t].result
        BY CallIsRecord DEF IsCall
      <3>3. calls' = [calls EXCEPT ![t] = c]
        BY <3>1
      <3> HIDE DEF c
      <3>4. PICK d : d = c
        OBVIOUS
      <3>5. calls'[t] = d /\ calls' = [calls EXCEPT ![t] = d]
        BY <3>3, <3>4, CallIsRecord
      <3>6. PhaseOK(t)'
        BY <1>1, <2>5, <3>1, <3>2, <3>4, <3>5 DEF PhaseOK
      <3>7. ResultOK(t, d.result)
        BY <3>2, <3>4 DEF XInv
      <3>8. d.ask.arg \in Nat /\ d.result.ask.arg \in Nat
        BY <1>1, <3>2, <3>4 DEF NumbersOK
      <3>9. /\ UNCHANGED <<engineSide, session>> /\ d.known = calls[t].known
            /\ d.ask.type = calls[t].ask.type
            /\ d.at = "between" /\ calls[t].at = "waiting"
        BY <1>1, <2>1, <3>1, <3>2, <3>4
      <3> QED BY <1>1, <2>1, <3>5, <3>6, <3>7, <3>8, <3>9, MovesX
    <2>6. CASE ask.type # "hello"
                 /\ ~(ask.type \in {"save", "poll"} /\ (ask.type = "poll" => value = 0))
      <3>1. session' = session /\ Returns(t, value >= ask.arg, value)
        BY <1>3, <2>6 DEF Continue
      <3>2. session' \in [phase : {session'.phase}, next : Nat] /\ session.next <= session'.next
        BY <2>2, <3>1
      <3>10. (value >= ask.arg) \in BOOLEAN
        OBVIOUS
      <3>3. PICK ok \in BOOLEAN : ok = (value >= ask.arg)
        BY <3>10, Zenon
      <3>4. PICK r : r = Outcome(ask, ok, value)
        OBVIOUS
      <3>5. /\ value \in Nat
            /\ (ask.type = "edit" => value = ask.arg + 1 /\ Applied(t, ask.intent, ask.arg))
            /\ (ask.type = "poll" => value <= engine.durable)
        BY <2>1, <2>3, <2>6 DEF IsTrue
      <3>6. r.ask = ask /\ r.ok = ok /\ r.value = value
        BY <3>4 DEF Outcome
      <3>7. ok /\ ask.type = "poll" => engine.durable >= ask.arg
        <4>1. ask.arg \in Nat /\ engine.durable \in Nat
          BY <1>1 DEF NumbersOK, XInv, NumbersAreOld
        <4>2. ok => value >= ask.arg
          BY <3>3, Zenon
        <4> HIDE DEF value, ask
        <4> QED BY <3>5, <4>1, <4>2
      <3> HIDE DEF value
      <3>8. ResultOK(t, r)
        BY <2>1, <2>6, <3>5, <3>6, <3>7 DEF ResultOK
      <3>9. Returns(t, ok, value)
        BY <3>1, <3>3
      <3> QED BY <1>1, <2>1, <3>1, <3>2, <3>4, <3>5, <3>8, <3>9, ReturnsX
    <2> QED BY <2>4, <2>5, <2>6
  <1> QED BY <1>2, <1>3 DEF Receive

LEMMA ReceiveWhileClosingX ==
  ASSUME IInv, XInv, NEW t \in Threads, ReceiveWhileClosing(t) PROVE XInv'
  <1> DEFINE k == calls[t].seq  task == tasks[k]  ask == calls[t].ask
  <1>1. /\ calls[t].at = "closing" /\ tasks' = Without(k) /\ k \in DOMAIN tasks
        /\ PhaseOK(t) /\ NumbersOK(t) /\ lock = {t}
        /\ ask.type = "shutdown" /\ session.phase = "closed"
    BY DEF ReceiveWhileClosing, XInv, AwaitedOK, PhaseOK
  <1>2. CASE Fails(t, TRUE)
    BY <1>1, <1>2, FailsX
  <1>3. CASE /\ Accepts(t, task) /\ calls' = [calls EXCEPT ![t].at = "exiting"]
             /\ UNCHANGED <<engineSide, lock, session>>
    <2>1. task.at = "done" /\ task.seq = k /\ task.answer.type = "ack"
      BY <1>1, <1>3 DEF Accepts
    <2>2. Over
      <3>1. <<task.seq, task.answer>> \in Seen
        BY <1>1, <2>1 DEF Seen
      <3>2. IsTrue(t, ask, task.answer)
        BY <1>1, <2>1, <3>1 DEF XInv, AwaitedOK
      <3> QED BY <1>1, <2>1, <3>2 DEF IsTrue
    <2> DEFINE c == [calls[t] EXCEPT !.at = "exiting"]
    <2>3. /\ c.at = "exiting" /\ c.ask = ask /\ c.known = calls[t].known
          /\ c.result = calls[t].result
      BY CallIsRecord DEF IsCall
    <2>4. calls' = [calls EXCEPT ![t] = c]
      BY <1>3
    <2> HIDE DEF c
    <2>5. PICK d : d = c
      OBVIOUS
    <2>6. calls'[t] = d /\ calls' = [calls EXCEPT ![t] = d]
      BY <2>4, <2>5, CallIsRecord
    <2>7. PhaseOK(t)'
      BY <1>1, <1>3, <2>3, <2>5, <2>6 DEF PhaseOK
    <2>8. ResultOK(t, d.result)
      BY <2>3, <2>5 DEF XInv
    <2>9. d.ask.arg \in Nat /\ d.result.ask.arg \in Nat
      BY <1>1, <2>3, <2>5 DEF NumbersOK
    <2>10. /\ UNCHANGED <<engineSide, session>> /\ lock' = lock /\ d.known = calls[t].known
           /\ d.ask.type = calls[t].ask.type /\ d.at = "exiting"
      BY <1>3, <2>3, <2>5
    <2> QED BY <1>1, <2>2, <2>6, <2>7, <2>8, <2>9, <2>10, MovesX
  <1> QED BY <1>2, <1>3 DEF ReceiveWhileClosing

\* A call begins.
LEMMA CallsX ==
  ASSUME IInv, XInv, NEW t \in Threads, NEW ask, Calls(t, ask), ask.arg \in Nat,
         \/ /\ ask.type = "hello" /\ session.phase = "launching"
            /\ \A u \in Threads : calls[u].at = "idle"
         \/ ask.type # "hello" /\ Usable
  PROVE  XInv'
  <1> DEFINE result == Outcome(NoAsk, FALSE, 0)
             c == [calls[t] EXCEPT !.at = "calling", !.ask = ask, !.result = result]
  <1>1. /\ calls[t].at = "idle" /\ calls' = [calls EXCEPT ![t] = c]
        /\ UNCHANGED <<engineSide, session>> /\ tasks' = tasks /\ lock' = lock
    BY DEF Calls, readerSide
  <1>2. ~result.ok /\ result.ask.arg = 0
    BY DEF Outcome, NoAsk, Ask
  <1> HIDE DEF result
  <1>3. c.at = "calling" /\ c.ask = ask /\ c.known = calls[t].known /\ c.result = result
    BY CallIsRecord DEF IsCall
  <1> HIDE DEF c
  <1>4. PICK d : d = c
    OBVIOUS
  <1>5. /\ calls'[t] = d /\ calls' = [calls EXCEPT ![t] = d]
        /\ \A u \in Threads \ {t} : calls'[u] = calls[u]
    BY <1>1, <1>4, CallIsRecord
  <1>6. PhaseOK(t)'
    BY <1>1, <1>3, <1>4, <1>5 DEF PhaseOK, Usable
  <1>7. ResultOK(t, d.result)
    BY <1>2, <1>3, <1>4 DEF ResultOK
  <1>8. /\ d.at = "calling" /\ d.ask = ask /\ d.known = calls[t].known
        /\ d.ask.arg \in Nat /\ d.result.ask.arg \in Nat
    BY <1>2, <1>3, <1>4
  <1> QED BY <1>1, <1>5, <1>6, <1>7, <1>8, MovesX DEF Usable

LEMMA UseX == ASSUME IInv, XInv, NEW t \in Threads, Use(t) PROVE XInv'
  <1>1. NumbersOK(t)
    BY DEF XInv
  <1>2. CASE Launch(t)
    <2>1. /\ Calls(t, Ask("hello", 0, 0)) /\ session.phase = "launching"
          /\ \A u \in Threads : calls[u].at = "idle"
      BY <1>2 DEF Launch
    <2>2. Ask("hello", 0, 0).type = "hello" /\ Ask("hello", 0, 0).arg = 0
      BY DEF Ask
    <2> QED BY <2>1, <2>2, CallsX
  <1>3. CASE AskState(t) \/ SetTempo(t) \/ SaveSession(t) \/ Close(t)
    <2>1. PICK type, arg, intent :
             /\ type # "hello" /\ arg \in {0, calls[t].known} /\ Usable
             /\ Calls(t, Ask(type, arg, intent))
      BY <1>3 DEF AskState, SetTempo, SaveSession, Close
    <2>2. Ask(type, arg, intent).type # "hello" /\ Ask(type, arg, intent).arg \in Nat
      BY <1>1, <2>1 DEF Ask, NumbersOK
    <2> QED BY <2>1, <2>2, CallsX
  <1>4. CASE RetryEdit(t)
    <2>1. PICK ask : ask = calls[t].result.ask
      OBVIOUS
    <2>2. Usable /\ ask.type = "edit" /\ Calls(t, ask) /\ ask.arg \in Nat
      BY <1>1, <1>4, <2>1 DEF RetryEdit, NumbersOK
    <2> QED BY <2>2, CallsX
  <1>5. CASE PollAgain(t)
    <2> DEFINE ask == [calls[t].ask EXCEPT !.type = "poll"]
               c == [calls[t] EXCEPT !.at = "calling", !.ask = ask]
    <2>1. /\ calls[t].at = "between" /\ UNCHANGED <<engineSide, session>>
          /\ tasks' = tasks /\ lock' = lock
      BY <1>5 DEF PollAgain, readerSide
    <2>2. ask.type = "poll" /\ ask.arg = calls[t].ask.arg /\ IsCall(calls[t])
      BY CallIsRecord DEF IsCall, IsAsk, Ask
    <2>3. calls' = [calls EXCEPT ![t] = c]
      BY <1>5, <2>2 DEF PollAgain, IsCall, IInv, CallsOK
    <2> HIDE DEF ask
    <2>4. c.at = "calling" /\ c.ask = ask /\ c.known = calls[t].known /\ c.result = calls[t].result
      BY <2>2 DEF IsCall
    <2> HIDE DEF c
    <2>5. PICK d : d = c
      OBVIOUS
    <2>6. calls'[t] = d /\ calls' = [calls EXCEPT ![t] = d]
      BY <2>3, <2>5, CallIsRecord
    <2>7. calls[t].ask.type \in {"save", "poll"} /\ session.phase \in {"open", "closed"}
      BY <2>1 DEF XInv, PhaseOK
    <2>8. PhaseOK(t)'
      BY <2>1, <2>2, <2>4, <2>5, <2>6, <2>7 DEF PhaseOK
    <2>9. ResultOK(t, d.result)
      BY <2>4, <2>5 DEF XInv
    <2>10. /\ d.at = "calling" /\ d.ask.type = "poll" /\ d.known = calls[t].known
           /\ d.ask.arg \in Nat /\ d.result.ask.arg \in Nat
      BY <1>1, <2>2, <2>4, <2>5 DEF NumbersOK
    <2> QED BY <2>1, <2>6, <2>7, <2>8, <2>9, <2>10, MovesX
  <1> QED BY <1>2, <1>3, <1>4, <1>5, EndsX DEF Use

\* The interface dies: nobody waits for anything any more.
LEMMA LoseInterfaceX == ASSUME IInv, XInv, LoseInterface PROVE XInv'
  <1> DEFINE c(t) == [calls[t] EXCEPT !.at = "idle", !.ask = NoAsk, !.seq = 0,
                                      !.result = Outcome(NoAsk, FALSE, 0)]
  <1>1. /\ calls' = [t \in Threads |-> c(t)] /\ UNCHANGED <<engine, requests, answers>>
        /\ session' = [session EXCEPT !.phase = "lost"] /\ tasks' = [k \in {} |-> Nothing]
    BY DEF LoseInterface, engineSide
  <1>2. session' \in [phase : {"lost"}, next : Nat] /\ session'.next = session.next
    BY <1>1 DEF XInv, PipesOK
  <1>3. Over => Over'
    BY <1>1, <1>2 DEF Over, Settled, Revision
  <1>4. PipesOK'
    BY <1>1, <1>2 DEF XInv, PipesOK, IsUnit, IsTask
  <1>5. \A p \in Seen' : p \in Seen
    BY <1>1 DEF Seen
  <1>6. NumbersAreOld'
    BY <1>1, <1>2, <1>5 DEF XInv, NumbersAreOld
  <1>7. ShutdownIsLast'
    BY <1>1, <1>2, <1>3 DEF XInv, ShutdownIsLast
  <1>8. ASSUME NEW t \in Threads
        PROVE  (NumbersOK(t) /\ PhaseOK(t) /\ AwaitedOK(t) /\ ResultOK(t, calls[t].result))'
    <2> DEFINE result == Outcome(NoAsk, FALSE, 0)
               d == [calls[t] EXCEPT !.at = "idle", !.ask = NoAsk, !.seq = 0, !.result = result]
    <2>1. ~result.ok /\ result.ask.arg = 0 /\ NoAsk.arg = 0
      BY DEF Outcome, NoAsk, Ask
    <2>2. calls'[t] = d
      BY <1>1
    <2> HIDE DEF result
    <2>3. d.at = "idle" /\ d.ask = NoAsk /\ d.result = result /\ d.known = calls[t].known
      BY CallIsRecord DEF IsCall
    <2> HIDE DEF d
    <2>4. NumbersOK(t)' /\ PhaseOK(t)' /\ AwaitedOK(t)'
      BY <2>1, <2>2, <2>3 DEF XInv, NumbersOK, PhaseOK, AwaitedOK
    <2>5. ResultOK(t, calls[t].result)'
      BY <2>1, <2>2, <2>3 DEF ResultOK
    <2> QED BY <2>4, <2>5
  <1> QED BY <1>4, <1>6, <1>7, <1>8 DEF XInv

-----------------------------------------------------------------------------
(* Every step, and what it is good for.                                     *)

LEMMA InitX == Init => XInv
  <1> SUFFICES ASSUME Init PROVE XInv
    OBVIOUS
  <1>1. answers \in Seq({}) /\ DOMAIN answers = {} /\ DOMAIN requests = {} /\ DOMAIN tasks = {}
    BY DEF Init
  <1>2. tasks = [k \in DOMAIN tasks |-> tasks[k]]
    BY DEF Init
  <1>3. session \in [phase : {session.phase}, next : Nat] /\ session.next = 1
    BY DEF Init
  <1>4. PipesOK
    BY <1>1, <1>2, <1>3 DEF PipesOK
  <1>5. Seen = {}
    BY <1>1 DEF Seen
  <1>6. engine.durable = 1 /\ engine.run = "ready"
    BY DEF Init
  <1>7. NumbersAreOld /\ ShutdownIsLast
    BY <1>1, <1>5, <1>6 DEF NumbersAreOld, ShutdownIsLast
  <1>8. ASSUME NEW t \in Threads
        PROVE  NumbersOK(t) /\ PhaseOK(t) /\ AwaitedOK(t) /\ ResultOK(t, calls[t].result)
    <2> DEFINE result == Outcome(NoAsk, FALSE, 0)
               d == [at |-> "idle", ask |-> NoAsk, seq |-> 0, known |-> 1, intents |-> 0,
                     result |-> result]
    <2>1. ~result.ok /\ result.ask.arg = 0 /\ NoAsk.arg = 0
      BY DEF Outcome, NoAsk, Ask
    <2>2. calls[t] = d
      BY DEF Init
    <2> HIDE DEF result
    <2>3. d.at = "idle" /\ d.ask = NoAsk /\ d.result = result /\ d.known = 1
      OBVIOUS
    <2> HIDE DEF d
    <2>4. NumbersOK(t) /\ PhaseOK(t) /\ AwaitedOK(t)
      BY <2>1, <2>2, <2>3 DEF NumbersOK, PhaseOK, AwaitedOK
    <2>5. ResultOK(t, calls[t].result)
      BY <2>1, <2>2, <2>3 DEF ResultOK
    <2> QED BY <2>4, <2>5
  <1> QED BY <1>4, <1>7, <1>8 DEF XInv

LEMMA NextX == ASSUME IInv, XInv, [Next]_vars PROVE XInv'
  <1>1. CASE Serve \/ Crash
    BY <1>1, GreetX, TellX, EditX, SaveX, LeaveX, ExitX, FinishX DEF Serve
  <1>2. CASE LoseInterface
    BY <1>2, LoseInterfaceX
  <1>3. CASE \E k \in DOMAIN tasks : ReaderStep(k)
    BY <1>3, ReaderX
  <1>4. CASE \E t \in Threads : Use(t) \/ Progress(t)
    <2>1. PICK t \in Threads : Use(t) \/ Progress(t)
      BY <1>4
    <2> QED BY <2>1, UseX, SendX, ReceiveX, ReceiveWhileClosingX, EndsX DEF Progress
  <1>5. CASE UNCHANGED vars
    <2>1. /\ UNCHANGED <<engine, requests, answers, readerSide, callerSide>>
      BY <1>5 DEF vars, engineSide
    <2>2. Grows /\ RequestsShrink
      BY <2>1 DEF Grows, XInv, NumbersAreOld, Over, Settled, Revision, Alive, RequestsShrink,
                  callerSide
    <2>3. /\ engine'.run = "stopping" =>
               /\ session.phase \in {"closed", "lost"}
               /\ \A j \in DOMAIN requests' : requests'[j].ask.type = "shutdown"
          /\ engine'.run \in {"exiting", "ended"} => Over'
      BY <2>1, <2>2 DEF XInv, ShutdownIsLast, Grows
    <2> QED BY <2>1, <2>2, <2>3, PipesStay, ServeStepX
  <1> QED BY <1>1, <1>2, <1>3, <1>4, <1>5 DEF Next

LEMMA ExchangeInvariance == Spec => [](IInv /\ XInv)
  <1>1. Init => IInv /\ XInv
    BY InitInv, InitX
  <1>2. IInv /\ XInv /\ [Next]_vars => (IInv /\ XInv)'
    BY NextInv, NextX
  <1> QED BY <1>1, <1>2, PTL DEF Spec

\* Whoever gives up, is interrupted or reads somebody else's bytes: a call that
\* returns normally was told about its own request, and what it was told is
\* true - its edit is the one that made the revision, the revision it saved has
\* reached the disk (exchangeNew, awaitSessionSave).
THEOREM AnswersBelongToTheirCalls == Spec => []AnswersBelong
  <1>1. IInv /\ XInv => AnswersBelong
    <2> SUFFICES ASSUME IInv, XInv, NEW t \in Threads, calls[t].result.ok
                 PROVE  LET r == calls[t].result IN
                        /\ r.ask.type = "edit" =>
                             /\ r.value = r.ask.arg + 1
                             /\ Revision >= r.value
                             /\ engine.ledger[r.value - 1] = <<t, r.ask.intent>>
                        /\ r.ask.type \in {"save", "poll"} => engine.durable >= r.ask.arg
      BY DEF AnswersBelong
    <2> DEFINE r == calls[t].result
    <2>1. ResultOK(t, r) /\ r.ask.arg \in Nat
      BY DEF XInv, NumbersOK
    <2>2. CASE r.ask.type = "edit"
      <3>1. /\ r.value = r.ask.arg + 1 /\ r.ask.arg \in DOMAIN engine.ledger
            /\ engine.ledger[r.ask.arg] = <<t, r.ask.intent>>
        BY <2>1, <2>2 DEF ResultOK, Applied
      <3>2. Revision >= r.value /\ r.value - 1 = r.ask.arg
        BY <2>1, <3>1, RevisionIsNat
      <3> QED BY <2>2, <3>1, <3>2
    <2>3. CASE r.ask.type # "edit"
      BY <2>1, <2>3 DEF ResultOK
    <2> QED BY <2>2, <2>3
  <1> QED BY <1>1, ExchangeInvariance, PTL

\* An engine that ended by itself had saved what it applied, or failed to; and a
\* close that came back without an exception left such an engine, with nothing
\* asked of it (SHUTDOWN, close).
THEOREM EndsAreOrderly == Spec => []EndIsOrderly
  <1>1. IInv /\ XInv => EndIsOrderly
    BY DEF EndIsOrderly, XInv, ShutdownIsLast, ResultOK, Over
  <1> QED BY <1>1, ExchangeInvariance, PTL
=============================================================================
