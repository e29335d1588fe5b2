------------------------------ MODULE FileRelay ------------------------------
(***************************************************************************)
(* The file relay between one chart's EA and the service.  The EA moves a  *)
(* request with a session-local id into a file and polls a response file   *)
(* until its own id shows up or it times out (Transport.mqh).  A relay     *)
(* process forwards a request whose id is not the last one it handled, and *)
(* replaces the response file (mt5_relay.py).  Ids restart with every      *)
(* initialisation of the EA; the relay's last id is only in its memory;    *)
(* the files outlive both.  A session is one initialisation of the EA: the *)
(* old instance may still be running when the chart's new one begins, and  *)
(* one that was removed or killed is one that takes no further step, which *)
(* no fairness forbids.                                                    *)
(* Relays guard themselves by a lock file that no relay ever removes when  *)
(* it ends.                                                                *)
(***************************************************************************)
EXTENDS Integers, FiniteSets

CONSTANTS
  Relays,       \* the places a relay process is started from
  MaxSessions,  \* bound on the initialisations of the EA
  MaxCalls,     \* bound on the requests of all sessions and the ids of each
  MaxStarts,    \* bound on relay starts; a start is its process id
  MaxFailures   \* bound on requests and responses that cannot be put in place

ASSUME ConstantsAssumption ==
  /\ MaxSessions \in Nat
  /\ MaxCalls \in Nat
  /\ MaxStarts \in Nat
  /\ MaxFailures \in Nat

Sessions == 1..MaxSessions
Calls    == 1..MaxCalls
None     == 0        \* no id, no call, no process

VARIABLES
  ea,         \* each session: what it does, its newest id, the call that has it
  calls,      \* the number of requests made
  unsent,     \* the number of requests that could not be put in place
  reqFile, respFile,
  relay,      \* each relay: what it does, process id, last id, request in hand
  lock,       \* the lock file: who made it and whether the pid is written
  starts, failures,
  forwarded,  \* how often the service has handled each call
  \* history
  maker,      \* the session that made each call
  answer      \* the call whose response each call was given, and its verdict

eaVars    == <<ea, calls, unsent, maker, answer>>
relayVars == <<relay, lock, starts, failures, forwarded>>
vars      == <<eaVars, reqFile, respFile, relayVars>>

Request  == [id : 0..MaxCalls, call : 0..MaxCalls]
Response == [id : 0..MaxCalls, call : 0..MaxCalls, ok : BOOLEAN]
NoRequest  == [id |-> None, call |-> None]
NoResponse == [id |-> None, call |-> None, ok |-> FALSE]
NoLock     == [by |-> None, written |-> FALSE]

Locking  == {"checking", "taking", "unlinking", "retaking", "writing"}
Serving  == {"serving", "responding"}
Stopped  == {"off", "killed"}

TypeOK ==
  /\ ea \in [Sessions -> [pc : {"idle", "waiting", "deleting"},
                          id : 0..MaxCalls, call : 0..MaxCalls]]
  /\ calls \in 0..MaxCalls
  /\ unsent \in 0..MaxFailures
  /\ reqFile \in Request
  /\ respFile \in Response
  /\ relay \in [Relays -> [pc : Locking \cup Serving \cup Stopped, pid : 0..MaxStarts,
                           lastId : 0..MaxCalls, req : Request, ok : BOOLEAN]]
  /\ lock \in [by : 0..MaxStarts, written : BOOLEAN]
  /\ starts \in 0..MaxStarts
  /\ failures \in 0..MaxFailures
  /\ forwarded \in [Calls -> Nat]
  /\ maker \in [Calls -> 0..MaxSessions]
  /\ answer \in [Calls -> [call : 0..MaxCalls, ok : BOOLEAN]]

Off(how) == [pc |-> how, pid |-> None, lastId |-> None, req |-> NoRequest, ok |-> FALSE]

Init ==
  /\ ea = [k \in Sessions |-> [pc |-> "idle", id |-> None, call |-> None]]
  /\ calls = 0
  /\ unsent = 0
  /\ reqFile = NoRequest
  /\ respFile = NoResponse
  /\ relay = [r \in Relays |-> Off("off")]
  /\ lock = NoLock
  /\ starts = 0
  /\ failures = 0
  /\ forwarded = [c \in Calls |-> 0]
  /\ maker = [c \in Calls |-> 0]
  /\ answer = [c \in Calls |-> [call |-> None, ok |-> FALSE]]

-----------------------------------------------------------------------------
(* The EA                                                                  *)

\* Sessions are numbered in the order of their first requests.
Ready(k) == ea[k].pc = "idle" /\ (k > 1 => ea[k - 1].id > 0)

\* Move a request into place.
Send(k) ==
  /\ Ready(k)
  /\ calls < MaxCalls /\ ea[k].id < MaxCalls
  /\ calls' = calls + 1
  /\ ea' = [ea EXCEPT ![k] = [pc |-> "waiting", id |-> @.id + 1, call |-> calls + 1]]
  /\ reqFile' = [id |-> ea[k].id + 1, call |-> calls + 1]
  /\ maker' = [maker EXCEPT ![calls + 1] = k]
  /\ UNCHANGED <<unsent, answer, respFile, relayVars>>

\* The temporary file cannot be written, or it cannot be moved over the old
\* request, which by then is deleted: an id is used up for nothing.
SendFails(k) ==
  /\ Ready(k)
  /\ unsent + failures < MaxFailures /\ ea[k].id < MaxCalls
  /\ unsent' = unsent + 1
  /\ ea' = [ea EXCEPT ![k].id = @ + 1]
  /\ reqFile' \in {reqFile, NoRequest}
  /\ UNCHANGED <<calls, maker, answer, respFile, relayVars>>

\* Mutant: the EA takes whatever response it finds.
Receive_Any(k) ==
  /\ ea[k].pc = "waiting"
  /\ respFile # NoResponse
  /\ answer' = [answer EXCEPT ![ea[k].call] = [call |-> respFile.call, ok |-> respFile.ok]]
  /\ ea' = [ea EXCEPT ![k].pc = "deleting"]
  /\ UNCHANGED <<calls, unsent, maker, reqFile, respFile, relayVars>>

\* The polling loop finds a response with its own id and takes it.
Receive(k) ==
  /\ ea[k].pc = "waiting"
  /\ respFile.id = ea[k].id
  /\ answer' = [answer EXCEPT ![ea[k].call] = [call |-> respFile.call, ok |-> respFile.ok]]
  /\ ea' = [ea EXCEPT ![k].pc = "deleting"]
  /\ UNCHANGED <<calls, unsent, maker, reqFile, respFile, relayVars>>

DeleteResponse(k) ==
  /\ ea[k].pc = "deleting"
  /\ respFile' = NoResponse
  /\ ea' = [ea EXCEPT ![k].pc = "idle", ![k].call = None]
  /\ UNCHANGED <<calls, unsent, maker, answer, reqFile, relayVars>>

TimeOut(k) ==
  /\ ea[k].pc = "waiting"
  /\ ea' = [ea EXCEPT ![k].pc = "idle", ![k].call = None]
  /\ UNCHANGED <<calls, unsent, maker, answer, reqFile, respFile, relayVars>>

-----------------------------------------------------------------------------
(* A relay takes the lock                                                  *)

Becomes(r, pc) == relay' = [relay EXCEPT ![r].pc = pc]
GivesUp(r)     == relay' = [relay EXCEPT ![r] = Off("off")]

StartRelay(r) ==
  /\ relay[r].pc \in Stopped
  /\ starts < MaxStarts
  /\ starts' = starts + 1
  /\ relay' = [relay EXCEPT ![r] = [Off("checking") EXCEPT !.pid = starts + 1]]
  /\ UNCHANGED <<eaVars, reqFile, respFile, lock, failures, forwarded>>

LockVars == <<eaVars, reqFile, respFile, starts, failures, forwarded>>

\* os.kill(pid, 0); process ids are not used again.
Alive(pid) == \E q \in Relays : relay[q].pid = pid /\ relay[q].pc \notin Stopped

\* Mutant: any process id in the lock file counts as a live relay.
CheckLock_AnyPid(r) ==
  /\ relay[r].pc = "checking"
  /\ IF lock.written THEN GivesUp(r) ELSE Becomes(r, "taking")
  /\ UNCHANGED <<LockVars, lock>>

\* A lock with the pid of a live process wins; a missing, stale or still
\* empty one does not.
CheckLock(r) ==
  /\ relay[r].pc = "checking"
  /\ IF lock.written /\ Alive(lock.by) THEN GivesUp(r) ELSE Becomes(r, "taking")
  /\ UNCHANGED <<LockVars, lock>>

\* O_CREAT | O_EXCL; a file that exists is unlinked first.
TakeLock(r) ==
  /\ relay[r].pc = "taking"
  /\ IF lock = NoLock
     THEN /\ lock' = [by |-> relay[r].pid, written |-> FALSE]
          /\ Becomes(r, "writing")
     ELSE Becomes(r, "unlinking") /\ UNCHANGED lock
  /\ UNCHANGED LockVars

\* unlink raises when somebody else has removed the file.
Unlink(r) ==
  /\ relay[r].pc = "unlinking"
  /\ lock' = NoLock
  /\ IF lock = NoLock THEN GivesUp(r) ELSE Becomes(r, "retaking")
  /\ UNCHANGED LockVars

RetakeLock(r) ==
  /\ relay[r].pc = "retaking"
  /\ IF lock = NoLock
     THEN /\ lock' = [by |-> relay[r].pid, written |-> FALSE]
          /\ Becomes(r, "writing")
     ELSE GivesUp(r) /\ UNCHANGED lock
  /\ UNCHANGED LockVars

\* The pid goes to the file that was opened, which may be unlinked by now.
WriteLock(r) ==
  /\ relay[r].pc = "writing"
  /\ lock' = IF lock.by = relay[r].pid THEN [lock EXCEPT !.written = TRUE] ELSE lock
  /\ Becomes(r, "serving")
  /\ UNCHANGED LockVars

-----------------------------------------------------------------------------
(* A relay serves                                                          *)

\* Mutant: only a greater id is a new request.
IsNew_Greater(r, id) == id > relay[r].lastId

\* rid != last_ids.get(fname)
IsNew(r, id) == id # relay[r].lastId

\* Mutant: a call that never reached the service is answered with success.
CallService_AlwaysOk(r) ==
  /\ relay[r].pc = "serving"
  /\ reqFile # NoRequest
  /\ IsNew(r, reqFile.id)
  /\ \E handled \in BOOLEAN :
       /\ forwarded' = IF handled THEN [forwarded EXCEPT ![reqFile.call] = @ + 1] ELSE forwarded
       /\ relay' = [relay EXCEPT ![r] = [@ EXCEPT !.pc = "responding", !.req = reqFile,
                                                  !.ok = TRUE]]
  /\ UNCHANGED <<eaVars, reqFile, respFile, lock, starts, failures>>

\* Forward the request in the file unless its id is the last one.  The service
\* handles it or is not reached; status 200 only if it did, but an error or a
\* time-out may hide that it did.
CallService(r) ==
  /\ relay[r].pc = "serving"
  /\ reqFile # NoRequest
  /\ IsNew(r, reqFile.id)
  /\ \E handled \in BOOLEAN, ok \in BOOLEAN :
       /\ ok => handled
       /\ forwarded' = IF handled THEN [forwarded EXCEPT ![reqFile.call] = @ + 1] ELSE forwarded
       /\ relay' = [relay EXCEPT ![r] = [@ EXCEPT !.pc = "responding", !.req = reqFile,
                                                  !.ok = ok]]
  /\ UNCHANGED <<eaVars, reqFile, respFile, lock, starts, failures>>

\* Mutant: the handled id is not remembered.
Respond_Forgets(r) ==
  /\ relay[r].pc = "responding"
  /\ respFile' = [id |-> relay[r].req.id, call |-> relay[r].req.call, ok |-> relay[r].ok]
  /\ relay' = [relay EXCEPT ![r] = [@ EXCEPT !.pc = "serving", !.req = NoRequest, !.ok = FALSE]]
  /\ UNCHANGED <<eaVars, reqFile, lock, starts, failures, forwarded>>

\* Mutant: a call that did not succeed is answered without its id.
Respond_Unnumbered(r) ==
  /\ relay[r].pc = "responding"
  /\ respFile' = [id |-> IF relay[r].ok THEN relay[r].req.id ELSE -1,
                  call |-> relay[r].req.call, ok |-> relay[r].ok]
  /\ relay' = [relay EXCEPT ![r] = [@ EXCEPT !.pc = "serving", !.lastId = relay[r].req.id,
                                             !.req = NoRequest, !.ok = FALSE]]
  /\ UNCHANGED <<eaVars, reqFile, lock, starts, failures, forwarded>>

\* Whatever the outcome, the response replaces the old one and its id is the
\* last one handled.
Respond(r) ==
  /\ relay[r].pc = "responding"
  /\ respFile' = [id |-> relay[r].req.id, call |-> relay[r].req.call, ok |-> relay[r].ok]
  /\ relay' = [relay EXCEPT ![r] = [@ EXCEPT !.pc = "serving", !.lastId = relay[r].req.id,
                                             !.req = NoRequest, !.ok = FALSE]]
  /\ UNCHANGED <<eaVars, reqFile, lock, starts, failures, forwarded>>

\* The response cannot be written or moved: the exception is swallowed before
\* the id is remembered.
RespondFails(r) ==
  /\ relay[r].pc = "responding"
  /\ unsent + failures < MaxFailures
  /\ failures' = failures + 1
  /\ relay' = [relay EXCEPT ![r] = [@ EXCEPT !.pc = "serving", !.req = NoRequest, !.ok = FALSE]]
  /\ UNCHANGED <<eaVars, reqFile, respFile, lock, starts, forwarded>>

KillRelay(r) ==
  /\ relay[r].pc \notin Stopped
  /\ relay' = [relay EXCEPT ![r] = Off("killed")]
  /\ UNCHANGED <<LockVars, lock>>

-----------------------------------------------------------------------------
RelayStep(r) ==
  \/ CheckLock(r) \/ TakeLock(r) \/ Unlink(r) \/ RetakeLock(r) \/ WriteLock(r)
  \/ CallService(r) \/ Respond(r)

Next ==
  \/ \E k \in Sessions :
       \/ Send(k) \/ SendFails(k) \/ Receive(k) \/ DeleteResponse(k) \/ TimeOut(k)
  \/ \E r \in Relays :
       StartRelay(r) \/ RelayStep(r) \/ RespondFails(r) \/ KillRelay(r)

Spec == Init /\ [][Next]_vars

\* A relay that was started keeps running until it is killed.  Nobody has to
\* start one, and the EA may be gone for good.
Fairness == \A r \in Relays : WF_vars(RelayStep(r))

LiveSpec == Spec /\ Fairness

-----------------------------------------------------------------------------
\* Within one initialisation a request never gets another request's response,
\* however late that comes (FileRelay's gotId == id); a foreign response can
\* only be one to the same id of another session.
SessionAnswersMatch ==
  \A c \in Calls :
    answer[c].call \notin {None, c} => maker[answer[c].call] # maker[c]

\* The service handles a request once, plus at most once for every further
\* relay start and every response that could not be put in place
\* (process_one_req's last id).
ForwardedOnce ==
  \A c \in Calls : forwarded[c] <= starts + failures

\* An answer that says ok is the answer to a request the service has handled.
OkIsHandled == \A c \in Calls : answer[c].ok => forwarded[answer[c].call] > 0

\* "A lock left by a hard kill would block restarts forever, so ... a stale
\* lock is replaced": when a relay is started, some relay comes to serve, or
\* one was killed.
StaleLockReplaced ==
  (\E r \in Relays : relay[r].pc = "checking")
    ~> \E r \in Relays : relay[r].pc \in Serving \cup {"killed"}

\* Every serving relay keeps getting to the request in the file, also when a
\* new session's ids are smaller than the last one it handled.
RequestsTaken ==
  []<>(\A r \in Relays :
         relay[r].pc \in Serving => reqFile.id \in {None, relay[r].lastId})

\* "One relay per machine ... so a duplicate start loses."
OneRelay == Cardinality({r \in Relays : relay[r].pc \in Serving}) <= 1
=============================================================================
