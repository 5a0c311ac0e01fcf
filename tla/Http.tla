--------------------------------- MODULE Http ---------------------------------
(* wasi:http@0.3 over fetch (wasi/src/http.ts): one message that the guest     *)
(* builds, sends or hands on, its transmission future, and the response with   *)
(* its body, its byte timeouts and its trailers future.  send awaits the       *)
(* egress policy, the guest's body and trailers, and the transport, and may    *)
(* fail after each.                                                            *)
EXTENDS Naturals, FiniteSets

CONSTANTS
  Names  \* header names, up to case

VARIABLES
  options, \* allowRequest; which byte timeouts the guest set
  fields,  \* the resources fields: their entries, whether they may change
  message, \* the request or the response the guest made, its transmission future
  source,  \* the body it was made with
  egress,  \* what the policy said; whether the transport was given the request
  resp,    \* the response of fetch: who has it, its body
  reading, \* the generator of consume-body over the body of fetch
  trailers \* the trailers future of that consume-body

vars == <<options, fields, message, source, egress, resp, reading, trailers>>

\* mine: what the guest builds the message with, and the message's headers after that;
\* view: what get-headers hands out; clone: a clone the guest made.
Handles == {"mine", "view", "clone"}
NoFields == [there |-> FALSE, entries |-> {}, of |-> "mine", mutable |-> TRUE]
Entries(h) == fields[fields[h].of].entries

Options == [policy : {"absent", "deny", "ask"}, firstByte : BOOLEAN, betweenBytes : BOOLEAN]

Init ==
  /\ options \in Options
  /\ fields = [h \in Handles |-> [NoFields EXCEPT !.there = h = "mine"]]
  /\ message = [kind |-> "none", at |-> "none", transmission |-> "none"]
  /\ source \in {"none", "open"}
  /\ egress = [verdict |-> "none", dispatched |-> FALSE]
  /\ resp = [at |-> "none", body |-> "none"]
  /\ reading = [at |-> "none", first |-> TRUE, gone |-> FALSE, outcome |-> "pending"]
  /\ trailers = "none"

-----------------------------------------------------------------------------
(* fields: a message freezes the one it was made with; views and clones copy.  *)

Editable(h) == fields[h].there /\ fields[h].mutable /\ (h = "mine" => message.at = "none")

\* set, delete and get-and-delete: a new array of entries.
Edit(h, entries) ==
  /\ Editable(h)
  /\ fields' = [fields EXCEPT ![h].entries = entries, ![h].of = h]
  /\ UNCHANGED <<options, message, source, egress, resp, reading, trailers>>

\* append: the array that is there.
Append(h, name) ==
  /\ Editable(h)
  /\ fields' = [fields EXCEPT ![fields[h].of].entries = @ \cup {name}]
  /\ UNCHANGED <<options, message, source, egress, resp, reading, trailers>>

\* Mutant: the copy is shallow.
CopiedShallow(h, to, mutable) ==
  [fields EXCEPT ![to] = [fields[h] EXCEPT !.mutable = mutable]]

\* A copy of h's entries under the handle to.
Copied(h, to, mutable) ==
  [fields EXCEPT ![to] = [there |-> TRUE, entries |-> Entries(h), of |-> to, mutable |-> mutable]]

Clone(h) ==
  /\ fields[h].there /\ (h = "mine" => message.at = "none")
  /\ fields' = Copied(h, "clone", TRUE)
  /\ UNCHANGED <<options, message, source, egress, resp, reading, trailers>>

GetHeaders ==
  /\ message.at = "built"
  /\ fields' = Copied("mine", "view", FALSE)
  /\ UNCHANGED <<options, message, source, egress, resp, reading, trailers>>

\* request.new and response.new.
New(kind) ==
  /\ message.at = "none"
  /\ message' = [kind |-> kind, at |-> "built", transmission |-> "pending"]
  /\ fields' = [fields EXCEPT !["mine"].mutable = FALSE]
  /\ UNCHANGED <<options, source, egress, resp, reading, trailers>>

-----------------------------------------------------------------------------
(* client.send.                                                                *)

\* send throws; it may leave the transmission future alone.
Throw(transmission) == message' = [message EXCEPT !.at = "threw", !.transmission = transmission]
Goto(at) == message' = [message EXCEPT !.at = at]
Collect == Goto(IF source = "none" THEN "trailers" ELSE "collect")

\* No authority, a scheme that is not HTTP, a header the platform refuses, a URL that
\* cannot be parsed for the policy: fit says there is nothing of the kind.
Send(fit) ==
  /\ message.kind = "request" /\ message.at = "built"
  /\ CASE ~fit -> Throw("pending")
       [] fit /\ options.policy = "absent" -> Collect
       [] fit /\ options.policy = "ask" -> Goto("policy")
       [] OTHER -> Throw("err")
  /\ UNCHANGED <<options, fields, source, egress, resp, reading, trailers>>

\* A policy that throws or rejects denies.
Verdict(v) ==
  /\ message.at = "policy"
  /\ egress' = [egress EXCEPT !.verdict = v]
  /\ IF v = "allow" THEN Collect ELSE Throw("err")
  /\ UNCHANGED <<options, fields, source, resp, reading, trailers>>

Collected(ok) ==
  /\ message.at = "collect"
  /\ source' = IF ok THEN "drained" ELSE "failed"
  /\ IF ok THEN Goto("trailers") ELSE Throw("pending")
  /\ UNCHANGED <<options, fields, egress, resp, reading, trailers>>

\* The request's trailers: none, some, an error, or a future that never comes true.
Trailers(t) ==
  /\ message.at = "trailers"
  /\ egress' = [egress EXCEPT !.dispatched = t = "none"]
  /\ CASE t = "none" -> Goto("fetch")
       [] t \in {"some", "error"} -> Throw("err")
       [] OTHER -> Throw("pending")
  /\ UNCHANGED <<options, fields, source, resp, reading, trailers>>

Fetched(ok, empty) ==
  /\ message.at = "fetch"
  /\ IF ok THEN /\ message' = [message EXCEPT !.at = "answered", !.transmission = "ok"]
                /\ resp' = [at |-> "held", body |-> IF empty THEN "null" ELSE "open"]
     ELSE Throw("err") /\ UNCHANGED resp
  /\ UNCHANGED <<options, fields, source, egress, reading, trailers>>

(* The message handed on, or dropped.                                          *)

ConsumeStored ==
  /\ message.at = "built" /\ Goto("consumed")
  /\ source' = IF source = "none" THEN "none" ELSE "passed"
  /\ UNCHANGED <<options, fields, egress, resp, reading, trailers>>

\* The consumer reports through res, or its future fails.
Reported(outcome) ==
  /\ message.at = "consumed" /\ message.transmission = "pending"
  /\ message' = [message EXCEPT !.transmission = outcome]
  /\ UNCHANGED <<options, fields, source, egress, resp, reading, trailers>>

DropMessage ==
  /\ message.at = "built"
  /\ message' = [message EXCEPT !.at = "dropped", !.transmission = "err"]
  /\ UNCHANGED <<options, fields, source, egress, resp, reading, trailers>>

-----------------------------------------------------------------------------
(* The response of fetch, and consume-body.                                    *)

DropResponse ==
  /\ resp.at = "held"
  /\ resp' = [at |-> "dropped", body |-> IF resp.body = "open" THEN "cancelled" ELSE resp.body]
  /\ UNCHANGED <<options, fields, message, source, egress, reading, trailers>>

ConsumeFetched ==
  /\ resp.at = "held" /\ resp' = [resp EXCEPT !.at = "consumed"]
  /\ IF resp.body = "open"
     THEN reading' = [reading EXCEPT !.at = "read"] /\ trailers' = "pending"
     ELSE reading' = [reading EXCEPT !.at = "over"] /\ trailers' = "ok"
  /\ UNCHANGED <<options, fields, message, source, egress>>

\* readWithTimeout: the read or the timer, whichever is first.
ReadSettles(outcome) ==
  /\ reading.at = "read" /\ reading.outcome = "pending"
  /\ outcome = "timeout" => IF reading.first THEN options.firstByte ELSE options.betweenBytes
  /\ reading' = [reading EXCEPT !.outcome = outcome]
  /\ resp' = [resp EXCEPT !.body = CASE outcome = "done" -> "ended"
                                      [] outcome = "error" -> "failed"
                                      [] OTHER -> @]
  /\ UNCHANGED <<options, fields, message, source, egress, trailers>>

\* settle: the first call wins.
Settle(t) == trailers' = IF trailers = "pending" THEN t ELSE trailers

\* Mutant: the finally block has the last word.
OverOk(t) ==
  /\ Settle("ok") /\ reading' = [reading EXCEPT !.at = "over", !.outcome = "pending"]
  /\ resp' = [resp EXCEPT !.body = IF @ = "open" THEN "cancelled" ELSE @]

\* The finally block, after what was settled before it.
Over(t) ==
  /\ Settle(t) /\ reading' = [reading EXCEPT !.at = "over", !.outcome = "pending"]
  /\ resp' = [resp EXCEPT !.body = IF @ = "open" THEN "cancelled" ELSE @]

\* The generator goes on: the failure is settled before the finally block settles ok.
ReadReturns ==
  /\ reading.at = "read" /\ reading.outcome # "pending"
  /\ CASE reading.outcome \in {"timeout", "error"} -> Over("err")
       [] reading.outcome = "done" \/ (reading.outcome = "chunk" /\ reading.gone) -> Over("ok")
       [] OTHER -> /\ reading' = [reading EXCEPT !.at = "yield", !.first = FALSE, !.outcome = "pending"]
                   /\ UNCHANGED <<resp, trailers>>
  /\ UNCHANGED <<options, fields, message, source, egress>>

Taken ==
  /\ reading.at = "yield" /\ reading' = [reading EXCEPT !.at = "read"]
  /\ UNCHANGED <<options, fields, message, source, egress, resp, trailers>>

\* The guest drops the body's reader: a parked read is waited for.
ReaderDropped ==
  /\ reading.at \in {"read", "yield"} /\ ~reading.gone
  /\ IF reading.at = "yield" THEN Over("ok")
     ELSE reading' = [reading EXCEPT !.gone = TRUE] /\ UNCHANGED <<resp, trailers>>
  /\ UNCHANGED <<options, fields, message, source, egress>>

Next ==
  \/ \E h \in Handles : \/ Clone(h) \/ (\E entries \in SUBSET Names : Edit(h, entries))
                        \/ \E name \in Names : Append(h, name)
  \/ GetHeaders \/ ConsumeStored \/ DropMessage \/ DropResponse \/ ConsumeFetched
  \/ ReadReturns \/ Taken \/ ReaderDropped
  \/ \E kind \in {"request", "response"} : New(kind)
  \/ \E fit \in BOOLEAN : Send(fit)
  \/ \E v \in {"allow", "deny", "throws"} : Verdict(v)
  \/ \E ok \in BOOLEAN : Collected(ok) \/ \E empty \in BOOLEAN : Fetched(ok, empty)
  \/ \E t \in {"none", "some", "error", "rejected"} : Trailers(t)
  \/ \E outcome \in {"ok", "err"} : Reported(outcome)
  \/ \E outcome \in {"chunk", "done", "error", "timeout"} : ReadSettles(outcome)

Spec == Init /\ [][Next]_vars

-----------------------------------------------------------------------------
Fields == [there : BOOLEAN, entries : SUBSET Names, of : Handles, mutable : BOOLEAN]
Messages ==
  [kind : {"none", "request", "response"},
   at : {"none", "built", "policy", "collect", "trailers", "fetch", "answered", "threw",
         "consumed", "dropped"},
   transmission : {"none", "pending", "ok", "err"}]
Sources == {"none", "open", "drained", "failed", "passed"}
Verdicts == [verdict : {"none", "allow", "deny", "throws"}, dispatched : BOOLEAN]
Responses ==
  [at : {"none", "held", "consumed", "dropped"},
   body : {"none", "null", "open", "ended", "failed", "cancelled"}]
Readings ==
  [at : {"none", "read", "yield", "over"}, first : BOOLEAN, gone : BOOLEAN,
   outcome : {"pending", "chunk", "done", "error", "timeout"}]

TypeOK ==
  /\ options \in Options /\ fields \in [Handles -> Fields] /\ message \in Messages
  /\ source \in Sources /\ egress \in Verdicts /\ resp \in Responses /\ reading \in Readings
  /\ trailers \in {"none", "pending", "ok", "err"}

\* "A security predicate must never fail open", and "a refused request never drains the
\* guest's body stream".
FailsClosed ==
  (egress.dispatched \/ source \in {"drained", "failed"}) =>
     \/ options.policy = "absent"
     \/ options.policy = "ask" /\ egress.verdict = "allow"

\* The futures tell the truth: transmission is ok only of a request that the transport
\* answered or a consumer took; the trailers are ok only of a body that ended or whose
\* reader left, and an error or a timeout is never covered up by the end that follows it.
FuturesTruthful ==
  /\ message.transmission = "ok" => message.at = "consumed" \/ (message.at = "answered" /\ egress.dispatched)
  /\ trailers = "ok" => reading.at = "over" /\ resp.body \in {"null", "ended", "cancelled"}
  /\ trailers = "err" => resp.body \in {"failed", "cancelled"}
  /\ reading.at = "over" => trailers # "pending"

\* Nobody is left with an open connection: it is open only while the guest has the
\* response or the generator reads.
BodyReleased == resp.body = "open" => resp.at = "held" \/ reading.at \in {"read", "yield"}

\* The headers of a message are those it was made with, whatever the guest does to views
\* and clones.
HeadersFrozen == [][message.at # "none" => Entries("mine")' = Entries("mine")]_vars

\* "a pending future the guest awaits would otherwise hang forever": the transmission
\* future of a request that was dropped or whose send is over is settled.  (No run: the code breaks it.)
TransmissionSettles == message.at \in {"answered", "threw", "dropped"} => message.transmission # "pending"
=============================================================================
