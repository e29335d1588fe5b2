--------------------------- MODULE FileRelayProofs ---------------------------
(***************************************************************************)
(* Proofs about FileRelay, for any relays and any bounds: types, a session *)
(* is never given the answer to another of its own requests, an "ok" is    *)
(* the answer to a request the service has handled, and a request is       *)
(* handled no more often than relays were started or responses failed.     *)
(***************************************************************************)
EXTENDS FileRelay, FiniteSetTheorems, TLAPS

\* Who made a call; a session that waits knows its call.
Made ==
  /\ \A c \in Calls : IF c <= calls THEN maker[c] \in Sessions ELSE maker[c] = 0
  /\ \A k \in Sessions : ea[k].pc # "idle" =>
       ea[k].id > 0 /\ ea[k].call \in 1..calls /\ maker[ea[k].call] = k

\* An id and a call that lie in a file, or in a relay's hands: the id is none
\* that its session has yet to use, and while the session waits for this very
\* id, the call is the one it waits for.
Travels(id, call) ==
  /\ call \in 0..calls
  /\ call = None <=> id = None
  /\ call # None =>
       LET k == maker[call]
       IN  id <= ea[k].id /\ (ea[k].pc # "idle" /\ id = ea[k].id => call = ea[k].call)

Files ==
  /\ Travels(reqFile.id, reqFile.call)
  /\ Travels(respFile.id, respFile.call)
  /\ \A r \in Relays : Travels(relay[r].req.id, relay[r].req.call)

Answers ==
  \A c \in Calls : answer[c].call # None => c <= calls /\ answer[c].call \in 1..calls

\* Wherever it says ok, the service has handled the call.
Vouched(call) == call \in Calls /\ forwarded[call] > 0
Handled ==
  /\ respFile.ok => Vouched(respFile.call)
  /\ \A r \in Relays : relay[r].ok => Vouched(relay[r].req.call)
  /\ \A c \in Calls : answer[c].ok => Vouched(answer[c].call)

\* What a relay has in hand; no call was handled before it was made.
InHand ==
  /\ \A r \in Relays :
       /\ relay[r].pc = "responding" => relay[r].req.call # None
       /\ relay[r].pc \in Locking => relay[r].lastId = None
       /\ relay[r].req.call = reqFile.call /\ reqFile.call # None =>
            relay[r].req.id = reqFile.id
  /\ \A c \in Calls : c > calls => forwarded[c] = 0

Running == {r \in Relays : relay[r].pc \notin Stopped}

\* The relays that may still forward the request in the file.
Owing == {r \in Running : IF relay[r].pc = "responding"
                          THEN relay[r].req.call # reqFile.call
                          ELSE relay[r].lastId # reqFile.id}

Budget ==
  /\ IsFiniteSet(Running)
  /\ Cardinality(Running) <= starts
  /\ \A c \in Calls : forwarded[c] <= starts + failures
  /\ reqFile.call # None => forwarded[reqFile.call] + Cardinality(Owing) <= starts + failures

\* The inductive invariant.
Inv == /\ TypeOK /\ Made /\ Files /\ Answers /\ SessionAnswersMatch /\ Handled
       /\ InHand /\ Budget

-----------------------------------------------------------------------------
(* Types                                                                   *)

Client  == [pc : {"idle", "waiting", "deleting"}, id : 0..MaxCalls, call : 0..MaxCalls]
Machine == [pc : Locking \cup Serving \cup Stopped, pid : 0..MaxStarts,
            lastId : 0..MaxCalls, req : Request, ok : BOOLEAN]
Lock    == [by : 0..MaxStarts, written : BOOLEAN]

\* Records updated in one field.
LEMMA ClientUpdates ==
  ASSUME NEW e \in Client
  PROVE  /\ \A pc \in {"idle", "waiting", "deleting"} :
              [e EXCEPT !.pc = pc] \in Client /\ [e EXCEPT !.pc = pc, !.call = None] \in Client
         /\ \A i \in 0..MaxCalls : [e EXCEPT !.id = i] \in Client
<1>1. None \in 0..MaxCalls
  BY ConstantsAssumption DEF None
<1>. QED BY <1>1 DEF Client

LEMMA MachineUpdates ==
  ASSUME NEW m \in Machine
  PROVE  /\ \A pc \in Locking \cup Serving : [m EXCEPT !.pc = pc] \in Machine
         /\ \A q \in Request, ok \in BOOLEAN :
              [m EXCEPT !.pc = "responding", !.req = q, !.ok = ok] \in Machine
         /\ [m EXCEPT !.pc = "serving", !.lastId = m.req.id, !.req = NoRequest, !.ok = FALSE]
               \in Machine
         /\ [m EXCEPT !.pc = "serving", !.req = NoRequest, !.ok = FALSE] \in Machine
<1>1. NoRequest \in Request /\ m.req.id \in 0..MaxCalls
  BY ConstantsAssumption DEF NoRequest, Request, None, Machine
<1>2. "responding" \in Serving /\ "serving" \in Serving
  BY DEF Serving
<1>. QED BY <1>1, <1>2 DEF Machine

LEMMA OffType ==
  /\ \A how \in Stopped : /\ Off(how) \in Machine
                          /\ Off(how).req = NoRequest /\ ~Off(how).ok /\ Off(how).pc = how
                          /\ Off(how).lastId = None
  /\ \A p \in 0..MaxStarts : [Off("checking") EXCEPT !.pid = p] \in Machine
<1>1. NoRequest \in Request /\ 0 \in 0..MaxStarts /\ 0 \in 0..MaxCalls
  BY ConstantsAssumption DEF NoRequest, Request, None
<1>2. "checking" \in Locking
  BY DEF Locking
<1>. QED BY <1>1, <1>2 DEF Off, Machine, None

LEMMA FileTypes ==
  /\ NoRequest \in Request /\ NoResponse \in Response /\ NoLock \in Lock
  /\ \A l \in Lock : [l EXCEPT !.written = TRUE] \in Lock
<1>1. None \in 0..MaxCalls /\ None \in 0..MaxStarts
  BY ConstantsAssumption DEF None
<1>2. NoRequest \in Request /\ NoResponse \in Response /\ NoLock \in Lock
  BY <1>1 DEF NoRequest, NoResponse, NoLock, Request, Response, Lock
<1>3. \A l \in Lock : [l EXCEPT !.written = TRUE] \in Lock
  BY DEF Lock
<1>. QED BY <1>2, <1>3

LEMMA Types ==
  TypeOK <=> /\ ea \in [Sessions -> Client]
             /\ calls \in 0..MaxCalls
             /\ unsent \in 0..MaxFailures
             /\ reqFile \in Request
             /\ respFile \in Response
             /\ relay \in [Relays -> Machine]
             /\ lock \in Lock
             /\ starts \in 0..MaxStarts
             /\ failures \in 0..MaxFailures
             /\ forwarded \in [Calls -> Nat]
             /\ maker \in [Calls -> 0..MaxSessions]
             /\ answer \in [Calls -> [call : 0..MaxCalls, ok : BOOLEAN]]
BY DEF TypeOK, Client, Machine, Lock

LockStep(r) == CheckLock(r) \/ TakeLock(r) \/ Unlink(r) \/ RetakeLock(r) \/ WriteLock(r)

\* Taking the lock moves only the one relay on, or ends it.
LEMMA LockStepMoves ==
  ASSUME TypeOK, NEW r \in Relays, LockStep(r)
  PROVE  /\ UNCHANGED LockVars
         /\ relay[r].pc \in Locking
         /\ \/ \E pc \in Locking \cup {"serving"} : relay' = [relay EXCEPT ![r].pc = pc]
            \/ relay' = [relay EXCEPT ![r] = Off("off")]
         /\ lock' \in Lock
<1>1. relay[r] \in Machine /\ lock \in Lock /\ NoLock \in Lock
  BY Types, FileTypes
<1>2. [by |-> relay[r].pid, written |-> FALSE] \in Lock
  BY <1>1 DEF Machine, Lock
<1>3. [lock EXCEPT !.written = TRUE] \in Lock
  BY <1>1, FileTypes
<1>4. CASE CheckLock(r)
  BY <1>1, <1>4 DEF CheckLock, Locking, GivesUp, Becomes
<1>5. CASE TakeLock(r)
  BY <1>1, <1>2, <1>5 DEF TakeLock, Locking, Becomes
<1>6. CASE Unlink(r)
  BY <1>1, <1>6 DEF Unlink, Locking, GivesUp, Becomes
<1>7. CASE RetakeLock(r)
  BY <1>1, <1>2, <1>7 DEF RetakeLock, Locking, GivesUp, Becomes
<1>8. CASE WriteLock(r)
  BY <1>1, <1>3, <1>8 DEF WriteLock, Locking, Becomes
<1>. QED BY <1>4, <1>5, <1>6, <1>7, <1>8 DEF LockStep

\* A request that is forwarded is there: it has a call.
LEMMA ForwardsACall ==
  ASSUME TypeOK, Files, reqFile # NoRequest
  PROVE  reqFile.call \in Calls
BY ConstantsAssumption DEF TypeOK, Files, Travels, Request, NoRequest, Calls, None

LEMMA TypeStep ==
  ASSUME TypeOK, Files, [Next]_vars
  PROVE  TypeOK'
<1>. USE ConstantsAssumption
<1>a. /\ ea \in [Sessions -> Client]
      /\ relay \in [Relays -> Machine]
      /\ calls \in 0..MaxCalls /\ starts \in 0..MaxStarts
      /\ unsent \in 0..MaxFailures /\ failures \in 0..MaxFailures
  BY Types
<1>b. /\ reqFile \in Request /\ respFile \in Response /\ lock \in Lock
      /\ forwarded \in [Calls -> Nat]
      /\ maker \in [Calls -> 0..MaxSessions]
      /\ answer \in [Calls -> [call : 0..MaxCalls, ok : BOOLEAN]]
  BY Types
<1>0. CASE UNCHANGED vars
  BY <1>0 DEF TypeOK, vars, eaVars, relayVars
<1>1. ASSUME NEW k \in Sessions, Send(k) PROVE TypeOK'
  <2>1. calls + 1 \in Calls /\ calls + 1 \in 0..MaxCalls
    BY <1>1, <1>a DEF Send, Calls
  <2>2. ea[k].id + 1 \in 0..MaxCalls
    BY <1>1, <1>a DEF Send, Client
  <2>3. [pc |-> "waiting", id |-> ea[k].id + 1, call |-> calls + 1] \in Client
    BY <2>1, <2>2 DEF Client
  <2>4. [id |-> ea[k].id + 1, call |-> calls + 1] \in Request
    BY <2>1, <2>2 DEF Request
  <2>5. k \in 0..MaxSessions
    BY DEF Sessions
  <2>. QED BY <1>1, <2>1, <2>3, <2>4, <2>5, <1>a, <1>b DEF Send, relayVars, TypeOK, Client, Machine, Lock
<1>2. ASSUME NEW k \in Sessions, SendFails(k) PROVE TypeOK'
  <2>1. ea[k].id + 1 \in 0..MaxCalls /\ unsent + 1 \in 0..MaxFailures
    BY <1>2, <1>a DEF SendFails, Client
  <2>2. [ea[k] EXCEPT !.id = ea[k].id + 1] \in Client
    BY <1>a, <2>1, ClientUpdates
  <2>3. ea' \in [Sessions -> Client]
    BY <1>2, <1>a, <2>2 DEF SendFails
  <2>. QED BY <1>2, <2>1, <2>3, FileTypes, <1>a, <1>b DEF SendFails, relayVars, TypeOK, Client, Machine, Lock
<1>3. ASSUME NEW k \in Sessions, Receive(k) PROVE TypeOK'
  <2>1. [ea[k] EXCEPT !.pc = "deleting"] \in Client
    BY <1>a, ClientUpdates
  <2>2. [call |-> respFile.call, ok |-> respFile.ok] \in [call : 0..MaxCalls, ok : BOOLEAN]
    BY Types DEF Response
  <2>. QED BY <1>3, <2>1, <2>2, <1>a, <1>b DEF Receive, relayVars, TypeOK, Client, Machine, Lock
<1>4. ASSUME NEW k \in Sessions, DeleteResponse(k) PROVE TypeOK'
  <2>1. [ea[k] EXCEPT !.pc = "idle", !.call = None] \in Client
    BY <1>a, ClientUpdates
  <2>2. ea' \in [Sessions -> Client]
    BY <1>4, <1>a, <2>1 DEF DeleteResponse
  <2>. QED BY <1>4, <2>2, FileTypes, <1>a, <1>b DEF DeleteResponse, relayVars, TypeOK, Client, Machine, Lock
<1>5. ASSUME NEW k \in Sessions, TimeOut(k) PROVE TypeOK'
  <2>1. [ea[k] EXCEPT !.pc = "idle", !.call = None] \in Client
    BY <1>a, ClientUpdates
  <2>2. ea' \in [Sessions -> Client]
    BY <1>5, <1>a, <2>1 DEF TimeOut
  <2>. QED BY <1>5, <2>2, <1>a, <1>b DEF TimeOut, relayVars, TypeOK, Client, Machine, Lock
<1>6. ASSUME NEW r \in Relays, StartRelay(r) PROVE TypeOK'
  <2>1. starts + 1 \in 0..MaxStarts
    BY <1>6, <1>a DEF StartRelay
  <2>2. [Off("checking") EXCEPT !.pid = starts + 1] \in Machine
    BY <2>1, OffType
  <2>. QED BY <1>6, <2>1, <2>2, <1>a, <1>b DEF StartRelay, eaVars, TypeOK, Client, Machine, Lock
<1>7. ASSUME NEW r \in Relays, LockStep(r) PROVE TypeOK'
  <2>1. \A pc \in Locking \cup {"serving"} : [relay[r] EXCEPT !.pc = pc] \in Machine
    BY <1>a, MachineUpdates DEF Serving
  <2>2. Off("off") \in Machine
    BY OffType DEF Stopped
  <2>3. relay' \in [Relays -> Machine]
    BY <1>7, <1>a, <2>1, <2>2, LockStepMoves
  <2>. QED BY <1>7, <2>3, LockStepMoves, <1>a, <1>b DEF LockVars, eaVars, TypeOK, Client, Machine, Lock
<1>8. ASSUME NEW r \in Relays, CallService(r) PROVE TypeOK'
  <2>1. forwarded' \in [Calls -> Nat]
    BY <1>8, ForwardsACall, Types DEF CallService
  <2>2. \A ok \in BOOLEAN :
          [relay[r] EXCEPT !.pc = "responding", !.req = reqFile, !.ok = ok] \in Machine
    BY <1>a, MachineUpdates, Types
  <2>3. relay' \in [Relays -> Machine]
    BY <1>8, <1>a, <2>2 DEF CallService
  <2>. QED BY <1>8, <2>1, <2>3, <1>a, <1>b DEF CallService, eaVars, TypeOK, Client, Machine, Lock
<1>9. ASSUME NEW r \in Relays, Respond(r) PROVE TypeOK'
  <2>1. [relay[r] EXCEPT !.pc = "serving", !.lastId = relay[r].req.id, !.req = NoRequest,
                         !.ok = FALSE] \in Machine
    BY <1>a, MachineUpdates
  <2>2. relay' \in [Relays -> Machine]
    BY <1>9, <1>a, <2>1 DEF Respond
  <2>3. respFile' \in Response
    BY <1>9, <1>a DEF Respond, Response, Machine, Request
  <2>. QED BY <1>9, <2>2, <2>3, <1>a, <1>b DEF Respond, eaVars, TypeOK, Client, Machine, Lock
<1>10. ASSUME NEW r \in Relays, RespondFails(r) PROVE TypeOK'
  <2>1. [relay[r] EXCEPT !.pc = "serving", !.req = NoRequest, !.ok = FALSE] \in Machine
    BY <1>a, MachineUpdates
  <2>2. relay' \in [Relays -> Machine]
    BY <1>10, <1>a, <2>1 DEF RespondFails
  <2>3. failures' \in 0..MaxFailures
    BY <1>10, <1>a DEF RespondFails
  <2>. QED BY <1>10, <2>2, <2>3, <1>a, <1>b DEF RespondFails, eaVars, TypeOK, Client, Machine, Lock
<1>11. ASSUME NEW r \in Relays, KillRelay(r) PROVE TypeOK'
  <2>1. Off("killed") \in Machine
    BY OffType DEF Stopped
  <2>. QED BY <1>11, <2>1, <1>a, <1>b DEF KillRelay, LockVars, eaVars, TypeOK, Client, Machine, Lock
<1>. QED
  BY <1>0, <1>1, <1>2, <1>3, <1>4, <1>5, <1>6, <1>7, <1>8, <1>9, <1>10, <1>11
     DEF Next, RelayStep, LockStep

-----------------------------------------------------------------------------
(* What travels, and whose answer it is                                    *)

\* Everything that lies in a file or a hand is one request or another.
LEMMA TravellersAreRequests ==
  ASSUME TypeOK
  PROVE  /\ reqFile \in Request
         /\ \A r \in Relays : relay[r].req \in Request
         /\ respFile.id \in 0..MaxCalls /\ respFile.call \in 0..MaxCalls
BY DEF TypeOK, Response

\* Whoever made a call that travels is a session.
LEMMA TravellersHaveMakers ==
  ASSUME TypeOK, Made, NEW id, NEW call, Travels(id, call), call # None
  PROVE  call \in Calls /\ call <= calls /\ maker[call] \in Sessions
<1>1. call \in 1..calls /\ calls \in 0..MaxCalls
  BY DEF Travels, None, TypeOK
<1>2. call \in Calls /\ call <= calls
  BY <1>1, ConstantsAssumption DEF Calls
<1>. QED BY <1>2 DEF Made

\* A step that makes no call keeps what travels sound, when each session either
\* goes on as it was or is idle, with no smaller id, and nothing new travels.
LEMMA FilesKept ==
  ASSUME TypeOK, TypeOK', Made, Files, UNCHANGED <<calls, maker>>,
         \A k \in Sessions :
            \/ /\ ea'[k].id = ea[k].id /\ ea'[k].call = ea[k].call
               /\ ea'[k].pc # "idle" => ea[k].pc # "idle"
            \/ ea'[k].pc = "idle" /\ ea'[k].id >= ea[k].id,
         reqFile' \in {reqFile, NoRequest},
         \/ respFile' \in {respFile, NoResponse}
         \/ \E r \in Relays : respFile'.id = relay[r].req.id /\ respFile'.call = relay[r].req.call,
         \A r \in Relays : relay'[r].req \in {relay[r].req, reqFile, NoRequest}
  PROVE  Made' /\ Files'
<1>1. Made'
  BY DEF Made
<1>2. \A k \in Sessions : ea[k].id \in Int /\ ea'[k].id \in Int
  BY DEF TypeOK
<1>3. Travels(None, None)'
  BY DEF Travels, None, TypeOK
<1>4. ASSUME NEW id \in 0..MaxCalls, NEW call \in 0..MaxCalls, Travels(id, call)
      PROVE  Travels(id, call)'
  <2>1. CASE call = None
    BY <1>4, <2>1 DEF Travels
  <2>2. CASE call # None
    <3>1. maker[call] \in Sessions
      BY <1>4, <2>2, TravellersHaveMakers
    <3>. QED BY <1>2, <1>4, <2>2, <3>1 DEF Travels
  <2>. QED BY <2>1, <2>2
<1>5. Travels(reqFile.id, reqFile.call)'
  BY <1>3, <1>4, TravellersAreRequests DEF Files, Request, NoRequest
<1>6. Travels(respFile.id, respFile.call)'
  BY <1>3, <1>4, TravellersAreRequests DEF Files, Request, NoResponse
<1>7. \A r \in Relays : Travels(relay[r].req.id, relay[r].req.call)'
  BY <1>3, <1>4, TravellersAreRequests DEF Files, Request, NoRequest
<1>. QED BY <1>1, <1>5, <1>6, <1>7 DEF Files

\* A new request: its id is above all that its session has used, its call new.
LEMMA SendKeepsFiles ==
  ASSUME TypeOK, TypeOK', Made, Files, NEW k \in Sessions, Send(k)
  PROVE  Made' /\ Files'
<1>. DEFINE id == ea[k].id + 1
            new == calls + 1
<1>1. /\ ea' = [ea EXCEPT ![k] = [pc |-> "waiting", id |-> id, call |-> new]]
      /\ calls' = new /\ maker' = [maker EXCEPT ![new] = k]
      /\ reqFile' = [id |-> id, call |-> new]
      /\ respFile' = respFile /\ relay' = relay
      /\ calls < MaxCalls /\ ea[k].pc = "idle" /\ ea[k].id < MaxCalls
  BY DEF Send, relayVars, Ready
<1>2. /\ calls \in Nat /\ new \in Calls /\ new \in 1..new
      /\ ea[k].id \in Nat /\ id \in 1..MaxCalls
      /\ \A q \in Sessions : ea[q].id \in Int
  <2>1. calls \in 0..MaxCalls /\ \A q \in Sessions : ea[q].id \in 0..MaxCalls
    BY Types DEF Client
  <2>. QED BY <1>1, <2>1, ConstantsAssumption DEF Calls
<1>3. ea'[k] = [pc |-> "waiting", id |-> id, call |-> new] /\ maker'[new] = k
  BY <1>1, <1>2 DEF TypeOK
<1>4. \A q \in Sessions : q # k => ea'[q] = ea[q]
  BY <1>1 DEF TypeOK
<1>5. \A c \in Calls : c <= calls => maker'[c] = maker[c]
  BY <1>1, <1>2 DEF TypeOK, Calls
<1>. HIDE DEF id, new
<1>6. Made'
  <2>1. ASSUME NEW c \in Calls
        PROVE  IF c <= calls' THEN maker'[c] \in Sessions ELSE maker'[c] = 0
    <3>1. CASE c <= calls
      BY <1>1, <1>2, <1>5, <3>1 DEF Made, new, Calls
    <3>2. CASE c = new
      BY <1>1, <1>2, <1>3, <3>2
    <3>3. CASE ~(c <= calls) /\ c # new
      <4>1. ~(c <= calls') /\ maker'[c] = maker[c]
        BY <1>1, <1>2, <3>3 DEF new, Calls, TypeOK
      <4>. QED BY <3>3, <4>1 DEF Made
    <3>. QED BY <3>1, <3>2, <3>3
  <2>2. ASSUME NEW q \in Sessions, ea'[q].pc # "idle"
        PROVE  ea'[q].id > 0 /\ ea'[q].call \in 1..calls' /\ maker'[ea'[q].call] = q
    <3>1. CASE q = k
      BY <1>1, <1>2, <1>3, <3>1
    <3>2. CASE q # k
      <4>1. ea'[q] = ea[q] /\ ea[q].call \in 1..calls /\ ea[q].id > 0 /\ maker[ea[q].call] = q
        BY <1>4, <2>2, <3>2 DEF Made
      <4>2. ea[q].call \in Calls /\ ea[q].call <= calls /\ ea[q].call \in 1..new
        <5>1. calls \in 0..MaxCalls
          BY DEF TypeOK
        <5>. QED BY <4>1, <5>1, ConstantsAssumption DEF Calls, new
      <4>3. maker'[ea[q].call] = q
        BY <1>5, <4>1, <4>2
      <4>4. ea[q].call \in 1..calls'
        BY <1>1, <4>2
      <4>. QED BY <4>1, <4>3, <4>4
    <3>. QED BY <3>1, <3>2
  <2>. QED BY <2>1, <2>2 DEF Made
<1>7. ASSUME NEW i \in 0..MaxCalls, NEW c \in 0..MaxCalls, Travels(i, c)
      PROVE  Travels(i, c)'
  <2>1. CASE c = None
    BY <1>1, <1>2, <1>7, <2>1 DEF Travels, None, new
  <2>2. CASE c # None
    <3>1. c \in Calls /\ c <= calls /\ maker[c] \in Sessions /\ maker'[c] = maker[c]
      BY <1>5, <1>7, <2>2, TravellersHaveMakers
    <3>2. c \in 0..calls' /\ i # None
      BY <1>1, <1>2, <1>7, <2>2 DEF Travels, new, None
    <3>3. CASE maker[c] = k
      <4>1. i <= ea[k].id
        BY <1>7, <2>2, <3>3 DEF Travels
      <4>2. i < ea'[k].id
        BY <1>2, <1>3, <4>1 DEF id
      <4>. QED BY <1>2, <1>3, <2>2, <3>1, <3>2, <3>3, <4>2 DEF Travels
    <3>4. CASE maker[c] # k
      BY <1>4, <1>7, <2>2, <3>1, <3>2, <3>4 DEF Travels
    <3>. QED BY <3>3, <3>4
  <2>. QED BY <2>1, <2>2
<1>8. Travels(reqFile.id, reqFile.call)'
  BY <1>1, <1>2, <1>3 DEF Travels, None
<1>9. Travels(respFile.id, respFile.call)'
  BY <1>1, <1>7, TravellersAreRequests DEF Files
<1>10. \A r \in Relays : Travels(relay[r].req.id, relay[r].req.call)'
  BY <1>1, <1>7, TravellersAreRequests DEF Files, Request
<1>. QED BY <1>6, <1>8, <1>9, <1>10 DEF Files

\* No relay's hands hold more than what it had, or the request in the file.
LEMMA Hands ==
  ASSUME TypeOK, NEW r \in Relays,
         StartRelay(r) \/ RelayStep(r) \/ RespondFails(r) \/ KillRelay(r)
  PROVE  /\ UNCHANGED <<eaVars, reqFile>>
         /\ \A q \in Relays : relay'[q].req \in {relay[q].req, reqFile, NoRequest}
         /\ \/ respFile' = respFile
            \/ respFile'.id = relay[r].req.id /\ respFile'.call = relay[r].req.call
<1>0. relay \in [Relays -> Machine]
  BY Types
<1>1. CASE StartRelay(r)
  BY <1>0, <1>1 DEF StartRelay, Off
<1>2. CASE LockStep(r)
  BY <1>0, <1>2, LockStepMoves, OffType DEF LockVars, Machine, Stopped
<1>3. CASE CallService(r)
  BY <1>0, <1>3 DEF CallService, Machine
<1>4. CASE Respond(r)
  BY <1>0, <1>4 DEF Respond, Machine
<1>5. CASE RespondFails(r)
  BY <1>0, <1>5 DEF RespondFails, Machine
<1>6. CASE KillRelay(r)
  BY <1>0, <1>6, OffType DEF KillRelay, LockVars, Stopped
<1>. QED BY <1>1, <1>2, <1>3, <1>4, <1>5, <1>6 DEF RelayStep, LockStep

LEMMA FilesStep ==
  ASSUME TypeOK, TypeOK', Made, Files, [Next]_vars
  PROVE  Made' /\ Files'
<1>a. ea \in [Sessions -> Client] /\ \A k \in Sessions : ea[k].id \in Int
  BY Types DEF Client
<1>1. CASE UNCHANGED vars
  BY <1>1, FilesKept, <1>a DEF vars, eaVars, relayVars
<1>2. ASSUME NEW k \in Sessions, SendFails(k) PROVE Made' /\ Files'
  <2>1. \A q \in Sessions : ea'[q].id >= ea[q].id /\ ea'[q].call = ea[q].call /\ ea'[q].pc = ea[q].pc
    BY <1>2, <1>a DEF SendFails, Client
  <2>2. ea[k].pc = "idle" /\ \A q \in Sessions : q # k => ea'[q].id = ea[q].id
    BY <1>2, <1>a DEF SendFails, Ready
  <2>. QED BY <1>2, <2>1, <2>2, FilesKept DEF SendFails, relayVars
<1>3. ASSUME NEW k \in Sessions, Receive(k) PROVE Made' /\ Files'
  <2>1. \A q \in Sessions : /\ ea'[q].id = ea[q].id /\ ea'[q].call = ea[q].call
                            /\ ea'[q].pc # "idle" => ea[q].pc # "idle"
    BY <1>3, <1>a DEF Receive, Client
  <2>. QED BY <1>3, <2>1, FilesKept DEF Receive, relayVars
<1>4. ASSUME NEW k \in Sessions, DeleteResponse(k) \/ TimeOut(k) PROVE Made' /\ Files'
  <2>1. ea' = [ea EXCEPT ![k].pc = "idle", ![k].call = None]
    BY <1>4 DEF DeleteResponse, TimeOut
  <2>2. \A q \in Sessions : \/ ea'[q] = ea[q]
                            \/ ea'[q].pc = "idle" /\ ea'[q].id = ea[q].id
    BY <1>a, <2>1 DEF Client
  <2>3. \A q \in Sessions :
            \/ /\ ea'[q].id = ea[q].id /\ ea'[q].call = ea[q].call
               /\ ea'[q].pc # "idle" => ea[q].pc # "idle"
            \/ ea'[q].pc = "idle" /\ ea'[q].id >= ea[q].id
    BY <1>a, <2>2
  <2>. QED BY <1>4, <2>3, FilesKept DEF DeleteResponse, TimeOut, relayVars
<1>5. ASSUME NEW r \in Relays,
             StartRelay(r) \/ RelayStep(r) \/ RespondFails(r) \/ KillRelay(r)
      PROVE  Made' /\ Files'
  BY <1>5, <1>a, Hands, FilesKept DEF eaVars
<1>. QED BY <1>1, <1>2, <1>3, <1>4, <1>5, SendKeepsFiles DEF Next

\* The response with a session's own id answers none of its other requests.
LEMMA AnswersStep ==
  ASSUME TypeOK, TypeOK', Made, Files, Answers, SessionAnswersMatch, [Next]_vars
  PROVE  Answers' /\ SessionAnswersMatch'
<1>1. ASSUME UNCHANGED <<calls, maker, answer>> PROVE Answers' /\ SessionAnswersMatch'
  BY <1>1 DEF Answers, SessionAnswersMatch
<1>2. ASSUME NEW k \in Sessions, Send(k) PROVE Answers' /\ SessionAnswersMatch'
  <2>1. /\ calls' = calls + 1 /\ maker' = [maker EXCEPT ![calls + 1] = k] /\ answer' = answer
        /\ calls \in Nat /\ calls < MaxCalls
    BY <1>2, ConstantsAssumption DEF Send, TypeOK
  <2>2. \A c \in Calls : c <= calls => maker'[c] = maker[c]
    BY <2>1 DEF TypeOK, Calls
  <2>3. \A c \in Calls : answer[c].call # None =>
            c <= calls /\ answer[c].call \in Calls /\ answer[c].call <= calls
    BY <2>1, ConstantsAssumption DEF Answers, Calls
  <2>4. Answers'
    <3>1. \A c \in Calls : c <= calls => c <= calls + 1 /\ c \in 1..(calls + 1)
      BY <2>1 DEF Calls
    <3>. QED BY <2>1, <2>3, <3>1 DEF Answers
  <2>. QED BY <2>1, <2>2, <2>3, <2>4 DEF SessionAnswersMatch
<1>3. ASSUME NEW k \in Sessions, Receive(k) PROVE Answers' /\ SessionAnswersMatch'
  <2>. DEFINE c == ea[k].call
              d == respFile.call
  <2>1. /\ ea[k].pc = "waiting" /\ respFile.id = ea[k].id
        /\ answer' = [answer EXCEPT ![c] = [call |-> d, ok |-> respFile.ok]]
        /\ calls' = calls /\ maker' = maker
    BY <1>3 DEF Receive
  <2>2. /\ ea[k].id # None /\ c \in 1..calls /\ c \in Calls /\ c <= calls /\ maker[c] = k
    <3>1. ea[k].id > 0 /\ c \in 1..calls /\ maker[c] = k
      BY <2>1 DEF Made
    <3>2. calls \in 0..MaxCalls /\ ea[k].id \in 0..MaxCalls
      BY Types DEF Client
    <3>. QED BY <3>1, <3>2, ConstantsAssumption DEF None, Calls
  <2>3. d \in 1..calls /\ (maker[d] = k => d = c)
    BY <2>1, <2>2 DEF Files, Travels, None, TypeOK
  <2>. HIDE DEF c, d
  <2>4. answer'[c].call = d /\ \A e \in Calls : e # c => answer'[e] = answer[e]
    BY <2>1, <2>2 DEF TypeOK
  <2>. QED BY <2>1, <2>2, <2>3, <2>4 DEF Answers, SessionAnswersMatch
<1>4. ASSUME NEW k \in Sessions, SendFails(k) \/ DeleteResponse(k) \/ TimeOut(k)
      PROVE  UNCHANGED <<calls, maker, answer>>
  BY <1>4 DEF SendFails, DeleteResponse, TimeOut
<1>5. ASSUME NEW r \in Relays,
             StartRelay(r) \/ RelayStep(r) \/ RespondFails(r) \/ KillRelay(r)
      PROVE  UNCHANGED <<calls, maker, answer>>
  BY <1>5, Hands DEF eaVars
<1>. QED BY <1>1, <1>2, <1>3, <1>4, <1>5 DEF Next, vars, eaVars

-----------------------------------------------------------------------------
(* What the service has handled                                            *)

\* What is handled stays handled.
LEMMA VouchedKept ==
  ASSUME TypeOK, TypeOK', NEW call, Vouched(call),
         \A c \in Calls : forwarded'[c] >= forwarded[c]
  PROVE  Vouched(call)'
BY DEF Vouched, TypeOK

\* Only the relay that calls the service counts a call as handled, once.
LEMMA ForwardedGrows ==
  ASSUME TypeOK, Files, [Next]_vars
  PROVE  /\ \A c \in Calls : forwarded'[c] >= forwarded[c]
         /\ forwarded' = forwarded \/ \E r \in Relays : CallService(r)
<1>1. ASSUME forwarded' = forwarded
      PROVE  \A c \in Calls : forwarded'[c] >= forwarded[c]
  BY <1>1 DEF TypeOK
<1>2. ASSUME NEW r \in Relays, CallService(r)
      PROVE  \A c \in Calls : forwarded'[c] >= forwarded[c]
  <2>1. reqFile.call \in Calls
    BY <1>2, ForwardsACall DEF CallService
  <2>2. forwarded' \in {forwarded, [forwarded EXCEPT ![reqFile.call] = @ + 1]}
    BY <1>2 DEF CallService
  <2>. QED BY <2>1, <2>2 DEF TypeOK
<1>3. ASSUME NEW k \in Sessions,
             Send(k) \/ SendFails(k) \/ Receive(k) \/ DeleteResponse(k) \/ TimeOut(k)
      PROVE  forwarded' = forwarded
  BY <1>3 DEF Send, SendFails, Receive, DeleteResponse, TimeOut, relayVars
<1>4. ASSUME NEW r \in Relays, LockStep(r)
      PROVE  forwarded' = forwarded
  BY <1>4, LockStepMoves DEF LockVars
<1>5. ASSUME NEW r \in Relays,
             StartRelay(r) \/ Respond(r) \/ RespondFails(r) \/ KillRelay(r)
      PROVE  forwarded' = forwarded
  BY <1>5 DEF StartRelay, Respond, RespondFails, KillRelay, LockVars
<1>. QED BY <1>1, <1>2, <1>3, <1>4, <1>5 DEF Next, RelayStep, LockStep, vars, relayVars

LEMMA HandledStep ==
  ASSUME TypeOK, TypeOK', Made, Files, Handled, [Next]_vars
  PROVE  Handled'
<1>a. \A c \in Calls : forwarded'[c] >= forwarded[c]
  BY ForwardedGrows
<1>b. relay \in [Relays -> Machine] /\ answer \in [Calls -> [call : 0..MaxCalls, ok : BOOLEAN]]
  BY Types
<1>1. \A call : Vouched(call) => Vouched(call)'
  BY <1>a, VouchedKept
<1>3. ASSUME respFile' \in {respFile, NoResponse},
             \A r \in Relays : relay'[r].ok => relay[r].ok /\ relay'[r].req = relay[r].req,
             answer' = answer
      PROVE  Handled'
  <2>1. (respFile.ok => Vouched(respFile.call))'
    BY <1>1, <1>3 DEF Handled, NoResponse
  <2>2. \A r \in Relays : (relay[r].ok => Vouched(relay[r].req.call))'
    BY <1>1, <1>3 DEF Handled, TypeOK
  <2>3. \A c \in Calls : (answer[c].ok => Vouched(answer[c].call))'
    BY <1>1, <1>3 DEF Handled
  <2>. QED BY <2>1, <2>2, <2>3 DEF Handled
<1>4. ASSUME NEW k \in Sessions, Send(k) \/ SendFails(k) \/ DeleteResponse(k) \/ TimeOut(k)
      PROVE  Handled'
  BY <1>3, <1>4 DEF Send, SendFails, DeleteResponse, TimeOut, relayVars
<1>5. ASSUME NEW k \in Sessions, Receive(k) PROVE Handled'
  <2>1. /\ answer' = [answer EXCEPT ![ea[k].call] = [call |-> respFile.call, ok |-> respFile.ok]]
        /\ respFile' = respFile /\ relay' = relay /\ forwarded' = forwarded
    BY <1>5 DEF Receive, relayVars
  <2>2. \A c \in Calls : \/ answer'[c] = answer[c]
                         \/ answer'[c] = [call |-> respFile.call, ok |-> respFile.ok]
    BY <1>b, <2>1
  <2>3. \A c \in Calls : (answer'[c].ok => Vouched(answer'[c].call))
    BY <2>2 DEF Handled
  <2>. QED BY <2>1, <2>3 DEF Handled, Vouched
<1>6. ASSUME NEW r \in Relays,
             StartRelay(r) \/ LockStep(r) \/ RespondFails(r) \/ KillRelay(r)
      PROVE  Handled'
  <2>1. respFile' = respFile /\ answer' = answer
    BY <1>6, LockStepMoves DEF StartRelay, RespondFails, KillRelay, LockVars, eaVars
  <2>2. \A q \in Relays : relay'[q].ok => relay[q].ok /\ relay'[q].req = relay[q].req
    <3>1. CASE StartRelay(r)
      <4>1. relay' = [relay EXCEPT ![r] = [Off("checking") EXCEPT !.pid = starts + 1]]
        BY <3>1 DEF StartRelay
      <4>2. [Off("checking") EXCEPT !.pid = starts + 1].ok = FALSE
        BY DEF Off
      <4>. QED BY <1>b, <4>1, <4>2
    <3>2. CASE LockStep(r)
      <4>1. CASE \E pc \in Locking \cup {"serving"} : relay' = [relay EXCEPT ![r].pc = pc]
        BY <1>b, <4>1
      <4>2. CASE relay' = [relay EXCEPT ![r] = Off("off")]
        BY <1>b, <4>2 DEF Off
      <4>. QED BY <3>2, <4>1, <4>2, LockStepMoves
    <3>3. CASE RespondFails(r)
      BY <1>b, <3>3 DEF RespondFails, Machine
    <3>4. CASE KillRelay(r)
      BY <1>b, <3>4, OffType DEF KillRelay, Stopped
    <3>. QED BY <1>6, <3>1, <3>2, <3>3, <3>4
  <2>. QED BY <1>3, <2>1, <2>2
<1>7. ASSUME NEW r \in Relays, CallService(r) PROVE Handled'
  <2>1. PICK handled \in BOOLEAN, ok \in BOOLEAN :
          /\ ok => handled
          /\ forwarded' = IF handled THEN [forwarded EXCEPT ![reqFile.call] = @ + 1] ELSE forwarded
          /\ relay' = [relay EXCEPT ![r] = [@ EXCEPT !.pc = "responding", !.req = reqFile, !.ok = ok]]
    BY <1>7 DEF CallService
  <2>2. respFile' = respFile /\ answer' = answer
    BY <1>7 DEF CallService, eaVars
  <2>3. /\ relay'[r].ok => ok
        /\ relay'[r].req = reqFile
        /\ \A q \in Relays : q # r => relay'[q] = relay[q]
    BY <1>b, <2>1 DEF Machine
  <2>4. reqFile.call \in Calls
    BY <1>7, ForwardsACall DEF CallService
  <2>5. ok => Vouched(reqFile.call)'
    <3>1. ok => forwarded' = [forwarded EXCEPT ![reqFile.call] = forwarded[reqFile.call] + 1]
      BY <2>1
    <3>2. UNCHANGED reqFile
      BY <1>7 DEF CallService
    <3>. QED BY <2>4, <3>1, <3>2 DEF Vouched, TypeOK
  <2>6. ASSUME NEW q \in Relays, relay'[q].ok PROVE Vouched(relay[q].req.call)'
    <3>1. CASE q = r
      BY <1>7, <2>3, <2>5, <2>6, <3>1 DEF CallService, Vouched
    <3>2. CASE q # r
      BY <1>1, <2>3, <2>6, <3>2 DEF Handled
    <3>. QED BY <3>1, <3>2
  <2>7. (respFile.ok => Vouched(respFile.call))' /\ \A c \in Calls : (answer[c].ok => Vouched(answer[c].call))'
    BY <1>1, <2>2 DEF Handled
  <2>. QED BY <2>6, <2>7 DEF Handled
<1>8. ASSUME NEW r \in Relays, Respond(r) PROVE Handled'
  <2>1. /\ respFile' = [id |-> relay[r].req.id, call |-> relay[r].req.call, ok |-> relay[r].ok]
        /\ relay' = [relay EXCEPT ![r] = [@ EXCEPT !.pc = "serving", !.lastId = relay[r].req.id,
                                                   !.req = NoRequest, !.ok = FALSE]]
        /\ answer' = answer
    BY <1>8 DEF Respond, eaVars
  <2>2. (respFile.ok => Vouched(respFile.call))'
    BY <1>1, <2>1 DEF Handled
  <2>3. \A q \in Relays : ~relay'[q].ok \/ relay'[q] = relay[q]
    BY <1>b, <2>1 DEF Machine
  <2>4. \A q \in Relays : (relay[q].ok => Vouched(relay[q].req.call))'
    BY <1>1, <2>3 DEF Handled, Vouched
  <2>5. \A c \in Calls : (answer[c].ok => Vouched(answer[c].call))'
    BY <1>1, <2>1 DEF Handled
  <2>. QED BY <2>2, <2>4, <2>5 DEF Handled
<1>9. UNCHANGED vars => Handled'
  BY <1>3 DEF vars, eaVars, relayVars
<1>. QED BY <1>4, <1>5, <1>6, <1>7, <1>8, <1>9 DEF Next, RelayStep, LockStep

-----------------------------------------------------------------------------
(* How often a request is forwarded                                        *)

LEMMA InHandStep ==
  ASSUME TypeOK, TypeOK', Made, Files, Files', InHand, [Next]_vars
  PROVE  InHand'
<1>. USE DEF InHand
<1>a. /\ relay \in [Relays -> Machine] /\ reqFile \in Request
      /\ \A r \in Relays : relay[r] \in Machine /\ relay[r].req \in Request
      /\ calls \in 0..MaxCalls
  BY Types DEF Machine
<1>b. "serving" \notin Locking /\ "responding" \notin Locking
  BY DEF Locking
<1>1. ASSUME UNCHANGED <<calls, reqFile, forwarded>>,
             \A r \in Relays :
                \/ relay'[r].pc = relay[r].pc /\ relay'[r].req = relay[r].req
                   /\ relay'[r].lastId = relay[r].lastId
                \/ /\ relay'[r].pc # "responding"
                   /\ relay'[r].pc \in Locking => relay'[r].lastId = None
                   /\ relay'[r].req \in {relay[r].req, NoRequest}
      PROVE  InHand'
  <2>1. NoRequest.call = None
    BY DEF NoRequest
  <2>2. \A r \in Relays :
          /\ relay'[r].pc = "responding" => relay'[r].req.call # None
          /\ relay'[r].pc \in Locking => relay'[r].lastId = None
    BY <1>1
  <2>3. \A r \in Relays :
          relay'[r].req.call = reqFile'.call /\ reqFile'.call # None => relay'[r].req.id = reqFile'.id
    BY <1>1, <2>1
  <2>. QED BY <1>1, <2>2, <2>3
<1>2. ASSUME NEW k \in Sessions, Send(k) PROVE InHand'
  <2>1. /\ calls' = calls + 1 /\ reqFile' = [id |-> ea[k].id + 1, call |-> calls + 1]
        /\ relay' = relay /\ forwarded' = forwarded
    BY <1>2 DEF Send, relayVars
  <2>2. \A r \in Relays : relay[r].req.call \in 0..calls
    BY DEF Files, Travels
  <2>3. \A r \in Relays : relay[r].req.call # reqFile'.call
    BY <1>a, <2>1, <2>2, ConstantsAssumption
  <2>4. \A c \in Calls : c > calls' => c > calls
    BY <1>a, <2>1, ConstantsAssumption DEF Calls
  <2>. QED BY <2>1, <2>3, <2>4
<1>3. ASSUME NEW k \in Sessions, SendFails(k) PROVE InHand'
  <2>1. /\ reqFile' \in {reqFile, NoRequest} /\ UNCHANGED <<calls, relay, forwarded>>
    BY <1>3 DEF SendFails, relayVars
  <2>. QED BY <2>1 DEF NoRequest
<1>4. ASSUME NEW k \in Sessions, Receive(k) \/ DeleteResponse(k) \/ TimeOut(k) PROVE InHand'
  BY <1>4 DEF Receive, DeleteResponse, TimeOut, relayVars
<1>5. ASSUME NEW r \in Relays, StartRelay(r) PROVE InHand'
  BY <1>1, <1>5, <1>a DEF StartRelay, Off, eaVars
<1>6. ASSUME NEW r \in Relays, LockStep(r) PROVE InHand'
  <2>1. relay[r].pc \in Locking /\ relay[r].lastId = None
    BY <1>6, LockStepMoves
  <2>2. \/ \E pc \in Locking \cup {"serving"} : relay' = [relay EXCEPT ![r].pc = pc]
        \/ relay' = [relay EXCEPT ![r] = Off("off")]
    BY <1>6, LockStepMoves
  <2>3. \A q \in Relays : q # r => relay'[q] = relay[q]
    BY <1>a, <2>2
  <2>4. relay'[r].pc # "responding" /\ relay'[r].lastId = None /\ relay'[r].req \in {relay[r].req, NoRequest}
    BY <1>a, <1>b, <2>1, <2>2, OffType DEF Machine, Stopped
  <2>5. UNCHANGED <<calls, reqFile, forwarded>>
    BY <1>6, LockStepMoves DEF LockVars, eaVars
  <2>. QED BY <1>1, <2>3, <2>4, <2>5
<1>7. ASSUME NEW r \in Relays, CallService(r) PROVE InHand'
  <2>1. PICK handled \in BOOLEAN, ok \in BOOLEAN :
          /\ forwarded' = IF handled THEN [forwarded EXCEPT ![reqFile.call] = @ + 1] ELSE forwarded
          /\ relay' = [relay EXCEPT ![r] = [@ EXCEPT !.pc = "responding", !.req = reqFile, !.ok = ok]]
          /\ reqFile # NoRequest /\ UNCHANGED <<calls, reqFile>>
    BY <1>7 DEF CallService, eaVars
  <2>2. reqFile.call \in 1..calls /\ reqFile.call # None
    <3>1. reqFile.call \in Calls
      BY <2>1, ForwardsACall
    <3>2. Travels(reqFile.id, reqFile.call)
      BY DEF Files
    <3>3. reqFile.call # None
      BY <3>1, ConstantsAssumption DEF Calls, None
    <3>. QED BY <3>2, <3>3 DEF Travels, None
  <2>3. /\ relay'[r].pc = "responding" /\ relay'[r].req = reqFile
        /\ \A q \in Relays : q # r => relay'[q] = relay[q]
    BY <1>a, <2>1 DEF Machine
  <2>4. \A c \in Calls : c > calls => forwarded'[c] = 0
    <3>1. \A c \in Calls : c > calls => c # reqFile.call
      BY <1>a, <2>2 DEF Calls
    <3>2. \A c \in Calls : c # reqFile.call => forwarded'[c] = forwarded[c]
      <4>1. CASE handled
        BY <2>1, <4>1 DEF TypeOK
      <4>2. CASE ~handled
        BY <2>1, <4>2
      <4>. QED BY <4>1, <4>2
    <3>. QED BY <3>1, <3>2
  <2>. QED BY <1>b, <2>1, <2>2, <2>3, <2>4
<1>8. ASSUME NEW r \in Relays, Respond(r) \/ RespondFails(r) PROVE InHand'
  <2>1. UNCHANGED <<calls, reqFile, forwarded>>
    BY <1>8 DEF Respond, RespondFails, eaVars
  <2>2. /\ relay'[r].pc = "serving" /\ relay'[r].req = NoRequest
        /\ \A q \in Relays : q # r => relay'[q] = relay[q]
    <3>1. CASE Respond(r)
      BY <3>1, <1>a DEF Respond, Machine
    <3>2. CASE RespondFails(r)
      BY <3>2, <1>a DEF RespondFails, Machine
    <3>. QED BY <1>8, <3>1, <3>2
  <2>3. relay'[r].pc # "responding"
    BY <2>2
  <2>. QED BY <1>1, <1>b, <2>1, <2>2, <2>3
<1>9. ASSUME NEW r \in Relays, KillRelay(r) PROVE InHand'
  BY <1>1, <1>9, <1>a, OffType DEF KillRelay, Stopped, LockVars, eaVars
<1>10. UNCHANGED vars => InHand'
  BY DEF vars, eaVars, relayVars
<1>. QED BY <1>2, <1>3, <1>4, <1>5, <1>6, <1>7, <1>8, <1>9, <1>10 DEF Next, RelayStep, LockStep

\* Counting what is in a set and what was in it before.
LEMMA Counts ==
  ASSUME NEW S, IsFiniteSet(S), NEW x, NEW T, T \subseteq S \cup {x}
  PROVE  /\ IsFiniteSet(T) /\ Cardinality(T) \in Nat /\ Cardinality(S) \in Nat
         /\ Cardinality(T) <= Cardinality(S) + 1
         /\ T \subseteq S => Cardinality(T) <= Cardinality(S)
         /\ x \in S /\ x \notin T => Cardinality(T) + 1 <= Cardinality(S)
<1>1. /\ IsFiniteSet(S \cup {x}) /\ Cardinality(S \cup {x}) <= Cardinality(S) + 1
      /\ Cardinality(S) \in Nat
  BY FS_AddElement, FS_CardinalityType
<1>2. IsFiniteSet(T) /\ Cardinality(T) <= Cardinality(S \cup {x})
  BY <1>1, FS_Subset
<1>3. Cardinality(T) \in Nat /\ Cardinality(S \cup {x}) \in Nat
  BY <1>1, <1>2, FS_CardinalityType
<1>4. T \subseteq S => Cardinality(T) <= Cardinality(S)
  BY FS_Subset
<1>5. ASSUME x \in S, x \notin T PROVE Cardinality(T) + 1 <= Cardinality(S)
  <2>1. IsFiniteSet(S \ {x}) /\ Cardinality(S \ {x}) = Cardinality(S) - 1
    BY <1>5, FS_RemoveElement
  <2>2. T \subseteq S \ {x}
    BY <1>5
  <2>3. Cardinality(T) <= Cardinality(S \ {x})
    BY <2>1, <2>2, FS_Subset
  <2>. QED BY <1>1, <1>3, <2>1, <2>3
<1>. QED BY <1>1, <1>2, <1>3, <1>4, <1>5

LEMMA SumsGrow ==
  ASSUME NEW a \in Nat, NEW b \in Nat, NEW c \in Nat, NEW d \in Nat, NEW f \in Int,
         NEW m \in Nat, NEW n \in Nat, f + m <= a + b, c >= a, d >= b, n <= m + 1,
         n <= m \/ c + d = a + b + 1
  PROVE  f + n <= c + d
OBVIOUS

\* The budget is kept when no request is replaced and none is forwarded, and
\* one relay more owes at most what starts and failures grow by.
LEMMA BudgetKept ==
  ASSUME TypeOK, TypeOK', Budget, NEW r,
         reqFile' = reqFile \/ reqFile' = NoRequest, forwarded' = forwarded,
         Running' \subseteq Running \cup {r},
         Running' \subseteq Running \/ starts' = starts + 1,
         reqFile' = reqFile => \/ Owing' \subseteq Owing
                              \/ /\ Owing' \subseteq Owing \cup {r}
                                 /\ starts' + failures' = starts + failures + 1,
         starts' >= starts, failures' >= failures
  PROVE  Budget'
<1>a. /\ starts \in Nat /\ failures \in Nat /\ starts' \in Nat /\ failures' \in Nat
      /\ forwarded \in [Calls -> Nat]
  BY ConstantsAssumption DEF TypeOK
<1>b. IsFiniteSet(Running) /\ Cardinality(Running) <= starts
  BY DEF Budget
<1>c. Owing \subseteq Running
  BY DEF Owing
<1>1. IsFiniteSet(Running') /\ Cardinality(Running') <= starts'
  <2>. DEFINE T == Running'
              S == Running
  <2>1. T \subseteq S \cup {r} /\ (T \subseteq S \/ starts' = starts + 1)
    OBVIOUS
  <2>2. IsFiniteSet(S) /\ Cardinality(S) <= starts
    BY <1>b
  <2>. HIDE DEF T, S
  <2>3. IsFiniteSet(T) /\ Cardinality(T) <= starts'
    BY <1>a, <2>1, <2>2, Counts
  <2>. QED BY <2>3 DEF T
<1>2. \A c \in Calls : forwarded'[c] <= starts' + failures'
  BY <1>a DEF Budget
<1>3. ASSUME reqFile'.call # None
      PROVE  forwarded'[reqFile'.call] + Cardinality(Owing') <= starts' + failures'
  <2>1. reqFile' = reqFile
    BY <1>3 DEF NoRequest
  <2>. DEFINE T == Owing'
              S == Owing
              f == forwarded[reqFile.call]
  <2>2. IsFiniteSet(S)
    BY <1>b, <1>c, FS_Subset
  <2>3. f + Cardinality(S) <= starts + failures /\ f \in Int
    BY <1>3, <2>1, <1>a, ConstantsAssumption DEF Budget, TypeOK, Request, Calls, None
  <2>4. \/ T \subseteq S
        \/ T \subseteq S \cup {r} /\ starts' + failures' = starts + failures + 1
    BY <2>1
  <2>. HIDE DEF T, S, f
  <2>5. /\ Cardinality(T) \in Nat /\ Cardinality(S) \in Nat
        /\ Cardinality(T) <= Cardinality(S) + 1
        /\ T \subseteq S => Cardinality(T) <= Cardinality(S)
    <3>1. T \subseteq S \cup {r}
      BY <2>4
    <3>. QED BY <2>2, <3>1, Counts
  <2>6. f + Cardinality(T) <= starts' + failures'
    <3>1. \/ Cardinality(T) <= Cardinality(S)
          \/ starts' + failures' = starts + failures + 1
      BY <2>4, <2>5
    <3>. QED BY <1>a, <2>3, <2>5, <3>1, SumsGrow
  <2>. QED BY <2>1, <2>6 DEF T, f
<1>. QED BY <1>1, <1>2, <1>3 DEF Budget

LEMMA BudgetStep ==
  ASSUME TypeOK, TypeOK', Made, Files, InHand, Budget, [Next]_vars
  PROVE  Budget'
<1>a. /\ relay \in [Relays -> Machine] /\ calls \in 0..MaxCalls
      /\ starts \in Nat /\ failures \in Nat /\ forwarded \in [Calls -> Nat]
      /\ \A r \in Relays : relay[r] \in Machine
  BY Types, ConstantsAssumption
<1>b. "serving" \notin Locking \cup Stopped /\ "responding" \notin Locking \cup Stopped
  BY DEF Locking, Stopped
<1>1. ASSUME NEW k \in Sessions, Send(k) PROVE Budget'
  <2>1. /\ calls' = calls + 1 /\ reqFile'.call = calls + 1
        /\ relay' = relay /\ forwarded' = forwarded /\ starts' = starts /\ failures' = failures
        /\ calls < MaxCalls
    BY <1>1 DEF Send, relayVars
  <2>2. calls + 1 \in Calls /\ calls + 1 > calls
    BY <1>a, <2>1, ConstantsAssumption DEF Calls
  <2>3. forwarded[calls + 1] = 0
    BY <2>2 DEF InHand
  <2>4. Running' = Running
    BY <2>1 DEF Running
  <2>5. Owing' \subseteq Running
    BY <2>4 DEF Owing
  <2>. DEFINE T == Owing'
  <2>6. IsFiniteSet(Running) /\ Cardinality(Running) <= starts
    BY DEF Budget
  <2>7. T \subseteq Running
    BY <2>5
  <2>. HIDE DEF T
  <2>8. Cardinality(T) <= starts /\ Cardinality(T) \in Nat
    BY <1>a, <2>6, <2>7, FS_Subset, FS_CardinalityType
  <2>9. forwarded'[reqFile'.call] + Cardinality(Owing') <= starts' + failures'
    BY <1>a, <2>1, <2>3, <2>8 DEF T
  <2>. QED BY <2>1, <2>4, <2>9 DEF Budget
<1>2. ASSUME NEW k \in Sessions,
             SendFails(k) \/ Receive(k) \/ DeleteResponse(k) \/ TimeOut(k)
      PROVE  Budget'
  <2>1. reqFile' \in {reqFile, NoRequest} /\ UNCHANGED relayVars
    BY <1>2 DEF SendFails, Receive, DeleteResponse, TimeOut
  <2>2. Running' = Running /\ (reqFile' = reqFile => Owing' = Owing)
    BY <2>1 DEF Running, Owing, relayVars
  <2>. QED BY <1>a, <2>1, <2>2, BudgetKept DEF relayVars
<1>3. ASSUME NEW r \in Relays, StartRelay(r) PROVE Budget'
  <2>1. /\ \A q \in Relays : q # r => relay'[q] = relay[q]
        /\ starts' = starts + 1 /\ UNCHANGED <<reqFile, failures, forwarded>>
    BY <1>3, <1>a DEF StartRelay
  <2>2. Running' \subseteq Running \cup {r}
    BY <2>1 DEF Running
  <2>3. Owing' \subseteq Owing \cup {r}
    BY <2>1 DEF Owing, Running
  <2>. QED BY <1>a, <2>1, <2>2, <2>3, BudgetKept
<1>4. ASSUME NEW r \in Relays, LockStep(r) \/ KillRelay(r) PROVE Budget'
  <2>1. UNCHANGED <<reqFile, starts, failures, forwarded>>
    BY <1>4, LockStepMoves DEF LockVars, KillRelay
  <2>2. /\ relay[r].pc \notin Stopped
        /\ \A q \in Relays : q # r => relay'[q] = relay[q]
        /\ \/ relay'[r].pc \in Stopped
           \/ /\ relay[r].pc # "responding" /\ relay'[r].pc # "responding"
              /\ relay'[r].lastId = relay[r].lastId
    <3>1. CASE LockStep(r)
      BY <1>a, <1>b, <3>1, LockStepMoves, OffType DEF Machine, Stopped, Locking
    <3>2. CASE KillRelay(r)
      BY <1>a, <3>2, OffType DEF KillRelay, Stopped
    <3>. QED BY <1>4, <3>1, <3>2
  <2>3. Running' \subseteq Running
    BY <2>2 DEF Running
  <2>4. Owing' \subseteq Owing
    BY <2>1, <2>2, <2>3 DEF Owing, Running
  <2>. QED BY <1>a, <2>1, <2>3, <2>4, BudgetKept
<1>5. ASSUME NEW r \in Relays, CallService(r) PROVE Budget'
  <2>1. PICK handled \in BOOLEAN, ok \in BOOLEAN :
          /\ forwarded' = IF handled THEN [forwarded EXCEPT ![reqFile.call] = @ + 1] ELSE forwarded
          /\ relay' = [relay EXCEPT ![r] = [@ EXCEPT !.pc = "responding", !.req = reqFile, !.ok = ok]]
          /\ reqFile # NoRequest /\ UNCHANGED <<reqFile, starts, failures>>
          /\ relay[r].pc = "serving" /\ reqFile.id # relay[r].lastId
    BY <1>5 DEF CallService, IsNew
  <2>2. reqFile.call \in Calls /\ reqFile.call # None
    BY <2>1, ForwardsACall DEF Calls, None
  <2>3. /\ relay'[r].pc = "responding" /\ relay'[r].req = reqFile
        /\ \A q \in Relays : q # r => relay'[q] = relay[q]
    BY <1>a, <2>1 DEF Machine
  <2>4. Running' = Running
    BY <1>b, <2>1, <2>3 DEF Running
  <2>5. r \in Owing /\ r \notin Owing' /\ Owing' \subseteq Owing
    <3>1. r \in Owing
      BY <1>b, <2>1 DEF Owing, Running
    <3>2. r \notin Owing'
      BY <2>1, <2>3 DEF Owing
    <3>3. Owing' \subseteq Owing
      BY <2>1, <2>3, <2>4, <3>2 DEF Owing
    <3>. QED BY <3>1, <3>2, <3>3
  <2>. DEFINE T == Owing'
              S == Owing
              f == forwarded[reqFile.call]
              g == forwarded'[reqFile.call]
  <2>6. f \in Nat /\ g \in Nat /\ g <= f + 1 /\ \A c \in Calls : c # reqFile.call => forwarded'[c] = forwarded[c]
    <3>1. CASE handled
      BY <1>a, <2>1, <2>2, <3>1
    <3>2. CASE ~handled
      BY <1>a, <2>1, <2>2, <3>2
    <3>. QED BY <3>1, <3>2
  <2>7. f + Cardinality(S) <= starts + failures
    BY <2>2 DEF Budget
  <2>8. IsFiniteSet(S)
    BY FS_Subset DEF Budget, Owing
  <2>9. r \in S /\ r \notin T /\ T \subseteq S
    BY <2>5
  <2>. HIDE DEF T, S, f, g
  <2>10. Cardinality(T) + 1 <= Cardinality(S) /\ Cardinality(T) \in Nat /\ Cardinality(S) \in Nat
    BY <2>8, <2>9, Counts
  <2>11. g + Cardinality(T) <= starts + failures /\ g <= starts + failures
    BY <1>a, <2>6, <2>7, <2>10
  <2>12. \A c \in Calls : forwarded'[c] <= starts' + failures'
    BY <2>1, <2>6, <2>11 DEF Budget, g
  <2>13. forwarded'[reqFile'.call] + Cardinality(Owing') <= starts' + failures'
    BY <2>1, <2>11 DEF g, T
  <2>. QED BY <2>1, <2>4, <2>12, <2>13 DEF Budget
<1>6. ASSUME NEW r \in Relays, Respond(r) \/ RespondFails(r) PROVE Budget'
  <2>1. /\ relay[r].pc = "responding" /\ relay'[r].pc = "serving"
        /\ Respond(r) => relay'[r].lastId = relay[r].req.id
        /\ \A q \in Relays : q # r => relay'[q] = relay[q]
        /\ UNCHANGED <<reqFile, starts, forwarded>>
        /\ IF Respond(r) THEN failures' = failures ELSE failures' = failures + 1
    <3>1. CASE Respond(r)
      BY <1>a, <3>1 DEF Respond, Machine
    <3>2. CASE RespondFails(r) /\ ~Respond(r)
      BY <1>a, <3>2 DEF RespondFails, Machine
    <3>. QED BY <1>6, <3>1, <3>2
  <2>2. Running' = Running
    BY <1>b, <2>1 DEF Running
  <2>3. Owing' \subseteq Owing \cup {r}
    <3>1. ASSUME NEW q \in Owing', q # r PROVE q \in Owing
      <4>1. q \in Running /\ relay'[q] = relay[q] /\ reqFile' = reqFile
        BY <2>1, <2>2, <3>1 DEF Owing, Running
      <4>. QED BY <3>1, <4>1 DEF Owing
    <3>. QED BY <3>1
  <2>4. ASSUME Respond(r), reqFile'.call # None PROVE Owing' \subseteq Owing
    <3>1. r \in Owing' => r \in Owing
      BY <2>1, <2>2, <2>4 DEF Owing, InHand
    <3>. QED BY <2>3, <3>1
  <2>5. CASE reqFile'.call # None
    <3>1. /\ Running' \subseteq Running /\ Running' \subseteq Running \cup {r}
          /\ starts' >= starts /\ failures' >= failures
          /\ reqFile' = reqFile /\ forwarded' = forwarded
      BY <1>a, <2>1, <2>2
    <3>2. CASE Respond(r)
      <4>1. Owing' \subseteq Owing
        BY <2>4, <2>5, <3>2
      <4>. QED BY <3>1, <4>1, BudgetKept
    <3>3. CASE ~Respond(r)
      <4>1. starts' + failures' = starts + failures + 1
        BY <1>a, <2>1, <3>3
      <4>. QED BY <2>3, <3>1, <4>1, BudgetKept
    <3>. QED BY <3>2, <3>3
  <2>6. CASE reqFile'.call = None
    BY <1>a, <2>1, <2>2, <2>6 DEF Budget
  <2>. QED BY <2>5, <2>6
<1>7. UNCHANGED vars => Budget'
  <2>1. UNCHANGED vars => Running' = Running /\ Owing' = Owing
    BY DEF vars, relayVars, Running, Owing
  <2>. QED BY <2>1 DEF vars, relayVars, Budget
<1>. QED BY <1>1, <1>2, <1>3, <1>4, <1>5, <1>6, <1>7 DEF Next, RelayStep, LockStep

-----------------------------------------------------------------------------
(* The theorems                                                            *)

LEMMA InvInit == Init => Inv
<1>. SUFFICES ASSUME Init PROVE Inv
  OBVIOUS
<1>. USE ConstantsAssumption
<1>1. TypeOK
  <2>1. Off("off") \in Machine
    BY OffType DEF Stopped
  <2>2. [pc |-> "idle", id |-> None, call |-> None] \in Client
    BY DEF Client, None
  <2>. QED BY <2>1, <2>2, FileTypes, Types DEF Init, None
<1>2. Running = {} /\ Owing = {}
  BY OffType DEF Init, Running, Owing, Stopped
<1>3. Made /\ Answers /\ SessionAnswersMatch
  BY DEF Init, Made, Answers, SessionAnswersMatch, Calls, None
<1>4. Files
  BY OffType DEF Init, Files, Travels, NoRequest, NoResponse, None, Stopped
<1>5. Handled
  BY OffType DEF Init, Handled, NoResponse, Stopped
<1>6. InHand
  BY OffType DEF Init, InHand, NoRequest, Stopped, Locking
<1>7. Budget
  BY <1>2, FS_EmptySet DEF Init, Budget, NoRequest, None
<1>. QED BY <1>1, <1>3, <1>4, <1>5, <1>6, <1>7 DEF Inv

LEMMA InvStep == Inv /\ [Next]_vars => Inv'
<1>. SUFFICES ASSUME Inv, [Next]_vars PROVE Inv'
  OBVIOUS
<1>1. TypeOK'
  BY TypeStep DEF Inv
<1>2. Made' /\ Files'
  BY <1>1, FilesStep DEF Inv
<1>. QED BY <1>1, <1>2, AnswersStep, HandledStep, InHandStep, BudgetStep DEF Inv

LEMMA InvHolds == Spec => []Inv
BY InvInit, InvStep, PTL DEF Spec

\* Type correctness of the relay's files, processes and sessions.
THEOREM TypeCorrect == Spec => []TypeOK
<1>1. Inv => TypeOK
  BY DEF Inv
<1>. QED BY <1>1, InvHolds, PTL

\* However late a response comes and whichever relay wrote it, the polling loop
\* of Transport.mqh never takes the answer to one request of its session for
\* the answer to another.
THEOREM AnswersMatch == Spec => []SessionAnswersMatch
<1>1. Inv => SessionAnswersMatch
  BY DEF Inv
<1>. QED BY <1>1, InvHolds, PTL

\* The last id that process_one_req remembers bounds the repetitions: the
\* service handles no request more often than relays were started and
\* responses were lost, however many relays serve at a time.
THEOREM RepetitionsBounded == Spec => []ForwardedOnce
<1>1. Inv => ForwardedOnce
  BY DEF Inv, Budget, ForwardedOnce
<1>. QED BY <1>1, InvHolds, PTL

\* The EA is told ok only for a request that the service has handled.
THEOREM NoFalseSuccess == Spec => []OkIsHandled
<1>1. Inv => OkIsHandled
  BY DEF Inv, Handled, Vouched, OkIsHandled
<1>. QED BY <1>1, InvHolds, PTL
=============================================================================
