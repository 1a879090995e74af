----------------------------- MODULE ThreadPool ------------------------------
(***************************************************************************)
(* Requests and the worker threads their work runs in (asyncio.to_thread). *)
(* A thread cannot be stopped: the work of a request that is cancelled     *)
(* goes on in it, with nobody waiting, while work that has no thread yet   *)
(* never starts.                                                           *)
(***************************************************************************)
EXTENDS Naturals, Sequences, FiniteSets

CONSTANTS
    Requests,       (* requests that can be handled at the same time       *)
    Threads,        (* the executor's worker threads                       *)
    NoRequest,
    MaxCancels      (* bound on the cancellations of one request           *)

ASSUME ThreadPoolAssumption ==
    /\ IsFiniteSet(Requests)
    /\ Requests # {} /\ Threads # {} /\ NoRequest \notin Requests
    /\ MaxCancels \in Nat

VARIABLES
    req,            (* every request: its step, its job, how often it was  *)
                    (* cancelled, what it did, its audit record            *)
    thread          (* what every thread does, and for which request       *)

Idle == [step |-> "idle", job |-> <<"none">>, cancels |-> 0, did |-> <<"nothing">>, log |-> "none"]
Begun(step, job) == [Idle EXCEPT !.step = step, !.job = job]
Op(r) == req[r].job[1]
Free == [owner |-> NoRequest, job |-> <<"none">>, at |-> "none"]

PoolInit ==
    /\ req = [r \in Requests |-> Idle]
    /\ thread = [t \in Threads |-> Free]

At(r, step) == req' = [req EXCEPT ![r].step = step]

(* A free thread takes the work of a request that waits for one.           *)
Takes(t, r) ==
    /\ thread[t] = Free
    /\ thread' = [thread EXCEPT ![t] = [owner |-> r, job |-> req[r].job, at |-> "begin"]]

Reaches(t, at) == thread' = [thread EXCEPT ![t].at = at]
Frees(t) == thread' = [thread EXCEPT ![t] = Free]

(* The thread's work is done: its request goes on, if it still waits.      *)
Returns(t, did) ==
    /\ req' = [r \in Requests |-> IF thread[t].owner = r
                                  THEN [req[r] EXCEPT !.step = "emit", !.did = did] ELSE req[r]]
    /\ Frees(t)

(* The work nobody waits for any more keeps its thread.                    *)
Abandoned(rs) ==
    thread' = [t \in Threads |-> IF thread[t].owner \in rs
                                 THEN [thread[t] EXCEPT !.owner = NoRequest] ELSE thread[t]]

==============================================================================
