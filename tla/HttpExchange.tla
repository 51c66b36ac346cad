---------------------------- MODULE HttpExchange ----------------------------
(***************************************************************************)
(* One extension HTTP exchange: who is asking (AuthenticationOwner and     *)
(* AuthenticationRun, extension_http/authentication.cpp) and which answer  *)
(* it gets (ResponseArbiter, extension_http/ownership.cpp).                *)
(*                                                                         *)
(* Filters answer from database callbacks, adapters submit candidates from *)
(* their own queues, the client, a shutdown or an upgrade cancels, the     *)
(* store acknowledges the choice, the transport reports what became of the *)
(* write: each call takes the owner's mutex, reads the clock and runs as   *)
(* one step, in any order.  Time is a position relative to the exchange's  *)
(* bounds; the clock is injected and may read below admitted_at.           *)
(***************************************************************************)
EXTENDS Naturals

CONSTANT MaxCandidates  \* bound: candidates the adapters submit

VARIABLES now,        \* "before", "run", "cut" (execution cutoff), "late" (wire expiry)
          auth,       \* [run, result, cancelled]
          arb,        \* the arbiter: [authorized, live, cancelled, frozen, durable,
                      \*               handed, closed, wire]
          stored,     \* the choice the store has committed, or None
          sent,       \* on the wire: "no", "started", "done"
          answer,     \* the choice handed to the writer, or None
          candidates  \* candidates submitted so far

vars == <<now, auth, arb, stored, sent, answer, candidates>>

Reasons == {"deadline", "client_gone", "shutdown", "generation_retired"}
None == [status |-> 0, reason |-> "none"]
Choice(status, reason) == [status |-> status, reason |-> reason]
\* What each cause of a cancellation answers; a client that left gets no status.
CancelChoice ==
    [deadline |-> Choice(504, "deadline"), client_gone |-> Choice(0, "client_gone"),
     shutdown |-> Choice(503, "shutdown"),
     generation_retired |-> Choice(503, "generation_retired")]
Candidates ==
    {Choice(200, "handler_response"), Choice(500, "response_invalid"),
     Choice(500, "handler_failed"), Choice(503, "adapter_unavailable"),
     Choice(500, "resource_exhausted")}

Init ==
    /\ now = "run"
    /\ auth = [run |-> "idle", result |-> "none", cancelled |-> "none"]
    /\ arb = [authorized |-> FALSE, live |-> TRUE, cancelled |-> "none", frozen |-> None,
              durable |-> FALSE, handed |-> FALSE, closed |-> FALSE, wire |-> "not_attempted"]
    /\ stored = None
    /\ sent = "no"
    /\ answer = None
    /\ candidates = 0

\* Time passes; the injected clock may also step back below admitted_at.
Tick ==
    /\ now' \in CASE now = "before" -> {"run"}
                  [] now = "run" -> {"before", "cut"}
                  [] now = "cut" -> {"late"}
                  [] now = "late" -> {}
    /\ UNCHANGED <<auth, arb, stored, sent, answer, candidates>>

----------------------------------------------------------------------------
(***************************************************************************)
(* AuthenticationOwner::current records the first reason it stops being    *)
(* live, and every step of a run asks it first.                            *)
(***************************************************************************)
Observed(a, stop) ==
    IF a.cancelled # "none" THEN a
    ELSE [a EXCEPT !.cancelled =
            CASE stop -> "shutdown"
              [] ~stop /\ now = "before" -> "generation_retired"
              [] ~stop /\ now \in {"cut", "late"} -> "deadline"
              [] OTHER -> "none"]

UncheckedFinish(a, result) == [a EXCEPT !.run = "done", !.result = result] \* Mutant: no recheck

Finish(a, result) ==
    [a EXCEPT !.run = "done", !.result = IF a.cancelled = "none" THEN result ELSE "retired"]

\* authenticate_http starts a filter; a safe public request needs none.
BeginAuthentication ==
    /\ auth.run = "idle"
    /\ \E stop \in BOOLEAN, mode \in {"protected", "public_unsafe", "public_safe"} :
        LET seen == Observed(auth, stop) IN
        auth' = IF seen.cancelled # "none" \/ mode = "public_safe"
                THEN Finish(seen, "anonymous")
                ELSE [seen EXCEPT !.run = mode]
    /\ UNCHANGED <<now, arb, stored, sent, answer, candidates>>

\* The filter lets the request through or answers it.  A protected route
\* takes a bearer token only; a credit that cannot be reserved is a rejection.
FilterAnswers ==
    /\ auth.run \in {"protected", "public_unsafe"}
    /\ \E stop \in BOOLEAN,
          result \in {"rejected", "unavailable",
                      IF auth.run = "protected" THEN "pat" ELSE "anonymous"} :
        auth' = Finish(Observed(auth, stop), result)
    /\ UNCHANGED <<now, arb, stored, sent, answer, candidates>>

CancelAuthentication(reason) ==
    /\ auth.cancelled = "none" /\ auth.run # "idle"
    /\ auth' = [auth EXCEPT !.cancelled = reason]
    /\ UNCHANGED <<now, arb, stored, sent, answer, candidates>>

\* AuthenticatedHttpPrincipal::snapshot
Principal == auth.result \in {"anonymous", "pat"} /\ Observed(auth, FALSE).cancelled = "none"

----------------------------------------------------------------------------
(***************************************************************************)
(* ResponseArbiter.  update applies the clock before every decision.       *)
(***************************************************************************)
Freeze(s, choice) == IF s.frozen = None /\ s.authorized THEN [s EXCEPT !.frozen = choice] ELSE s

CloseWire(s) ==
    [s EXCEPT !.closed = TRUE,
              !.wire = IF s.handed /\ s.wire \notin {"write_completed", "write_failed"}
                       THEN "unknown" ELSE @]

Cut(s) ==
    IF now \in {"cut", "late"}
    THEN Freeze([s EXCEPT !.cancelled = IF @ = "none" THEN "deadline" ELSE @],
                CancelChoice["deadline"])
    ELSE s

Expired(s) ==
    IF now = "late"
    THEN [CloseWire(s) EXCEPT !.wire = IF s.handed THEN @ ELSE "unknown"]
    ELSE s

Update(s) ==
    IF now = "before" THEN CloseWire([s EXCEPT !.live = FALSE]) ELSE Expired(Cut(s))

\* The common owner authorizes once, for a principal it could still read.
AuthorizeDispatch ==
    /\ Principal
    /\ LET s == Update(arb) IN
       arb' = IF s.authorized \/ ~s.live \/ s.cancelled # "none" \/ s.closed
              THEN s ELSE [s EXCEPT !.authorized = TRUE]
    /\ UNCHANGED <<now, auth, stored, sent, answer, candidates>>

LastCandidate(s, choice) == [s EXCEPT !.frozen = choice] \* Mutant: a later candidate replaces

Submitted(s, choice) == Freeze(s, choice)

\* submit_response and submit_failure; a duplicate or a retired candidate
\* only applies the clock.
Submit(choice) ==
    /\ arb.authorized /\ candidates < MaxCandidates
    /\ candidates' = candidates + 1
    /\ LET s == Update(arb) IN arb' = IF s.live THEN Submitted(s, choice) ELSE s
    /\ UNCHANGED <<now, auth, stored, sent, answer>>

Cancel(reason) ==
    /\ LET s == Update(arb)
           c == IF s.cancelled = "none"
                THEN Freeze([s EXCEPT !.cancelled = reason], CancelChoice[reason]) ELSE s
       IN arb' = IF reason = "deadline" THEN c
                 ELSE [CloseWire(c) EXCEPT !.live = @ /\ reason = "client_gone"]
    /\ UNCHANGED <<now, auth, stored, sent, answer, candidates>>

Expire == arb' = Update(arb) /\ UNCHANGED <<now, auth, stored, sent, answer, candidates>>

\* The store commits the frozen choice; confirm_choice is its acknowledgement.
StoreChoice ==
    /\ arb.frozen # None /\ stored = None
    /\ stored' = arb.frozen
    /\ UNCHANGED <<now, auth, arb, sent, answer, candidates>>

ConfirmChoice ==
    /\ stored # None
    /\ LET s == Update(arb) IN
       arb' = IF s.live /\ s.frozen = stored THEN [s EXCEPT !.durable = TRUE] ELSE s
    /\ UNCHANGED <<now, auth, stored, sent, answer, candidates>>

BeforeDurable(s) == \* Mutant: the wire does not wait for the store
    s.live /\ ~s.closed /\ ~s.handed /\ s.frozen.status # 0

MayWrite(s) == s.live /\ ~s.closed /\ ~s.handed /\ s.durable /\ s.frozen.status # 0

AssumesNothing(observed) == \* Mutant: a writer that threw has not started
    IF observed = "attempt_started" THEN observed ELSE "not_attempted"

WireAfter(observed) ==
    IF observed \in {"not_attempted", "attempt_started"} THEN observed ELSE "unknown"

\* dispatch_wire calls the writer under the lock.  It starts the write, does
\* not, or throws, having started or not.
DispatchWire ==
    /\ LET s == Update(arb) IN
       IF ~MayWrite(s)
       THEN arb' = s /\ UNCHANGED <<sent, answer>>
       ELSE \E observed \in {"not_attempted", "attempt_started", "threw"} :
            /\ sent' \in CASE observed = "not_attempted" -> {"no"}
                           [] observed = "attempt_started" -> {"started"}
                           [] observed = "threw" -> {"no", "started"}
            /\ answer' = s.frozen
            /\ arb' = [s EXCEPT !.handed = TRUE, !.closed = TRUE,
                                !.wire = WireAfter(observed)]
    /\ UNCHANGED <<now, auth, stored, candidates>>

TransportEnds ==
    /\ sent = "started"
    /\ sent' = "done"
    /\ UNCHANGED <<now, auth, arb, stored, answer, candidates>>

\* observe_wire: the transport's completion arrives.
ObserveWire ==
    /\ sent = "done" /\ arb.live /\ arb.handed /\ arb.wire \in {"attempt_started", "unknown"}
    /\ \E w \in {"write_completed", "write_failed"} : arb' = [arb EXCEPT !.wire = w]
    /\ UNCHANGED <<now, auth, stored, sent, answer, candidates>>

Next ==
    \/ Tick
    \/ BeginAuthentication \/ FilterAnswers
    \/ \E reason \in Reasons : CancelAuthentication(reason) \/ Cancel(reason)
    \/ AuthorizeDispatch \/ Expire \/ StoreChoice \/ ConfirmChoice
    \/ \E choice \in Candidates : Submit(choice)
    \/ DispatchWire \/ TransportEnds \/ ObserveWire

Spec == Init /\ [][Next]_vars

----------------------------------------------------------------------------
\* The types of the two owners.
TypeOK ==
    /\ now \in {"before", "run", "cut", "late"}
    /\ auth.run \in {"idle", "protected", "public_unsafe", "done"}
    /\ auth.result \in {"none", "anonymous", "pat", "rejected", "unavailable", "retired"}
    /\ auth.cancelled \in Reasons \cup {"none"} /\ arb.cancelled \in Reasons \cup {"none"}
    /\ arb.wire \in {"not_attempted", "attempt_started", "write_completed",
                     "write_failed", "unknown"}
    /\ candidates \in 0..MaxCandidates

\* What reaches the client is the one durable choice: the answer handed to
\* the writer is the frozen choice and the stored one, no candidate replaces
\* it afterwards, and an authorized exchange that was cancelled has a choice.
AnswerIsDurableChoice ==
    /\ answer # None => answer = stored /\ answer = arb.frozen
    /\ stored # None => stored = arb.frozen
    /\ (arb.authorized /\ arb.cancelled # "none") => arb.frozen # None
    /\ arb.durable => stored # None

\* The wire is never understated: once bytes may have left, the observation
\* is not "not attempted", also after a writer that threw, a cancellation or
\* an expiry; and a completion is only recorded for a write that ended.
WireIsNotUnderstated ==
    /\ sent # "no" => arb.wire # "not_attempted"
    /\ arb.wire \in {"write_completed", "write_failed"} => sent = "done"

\* A filter that answers after the deadline, a shutdown or a cancellation
\* yields no identity: the result is retired.
LateFilterIsRetired ==
    [][(auth.run # "done" /\ auth'.run = "done" /\ auth'.cancelled # "none")
        => auth'.result = "retired"]_vars
============================================================================
