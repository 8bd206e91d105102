---------------------------- MODULE NatsDispatch ----------------------------
(***************************************************************************)
(* The service in distributed mode: ConvertDocument (service.py) stores a  *)
(* record and NatsDispatch (dispatch.py) publishes the job over the one    *)
(* connection it keeps, which the first calls open; serve() (server.py)    *)
(* drains it at shutdown.  The worker that takes the jobs is no part of    *)
(* the repository.                                                         *)
(*                                                                         *)
(* A document stands for the call that submits it and for the connection   *)
(* that call may open.  Every step of a call is the end of an await: the   *)
(* store, nats.connect, the publish.  The client of NATS reconnects by     *)
(* itself, keeps what is published meanwhile, and one day gives up.        *)
(***************************************************************************)
EXTENDS Naturals, FiniteSets

CONSTANTS
    Docs,       \* the documents
    None,       \* no connection
    Outages     \* Redis and NATS may fail

ASSUME NatsAssumption == None \notin Docs /\ Outages \in BOOLEAN /\ IsFiniteSet(Docs)

VARIABLES
    call,       \* call[d]: what ConvertDocument awaits, or how it ended
    records,    \* the documents whose record is stored
    jobs,       \* the documents whose job is in the stream
    buffered,   \* the documents whose job the client of NATS keeps
    link,       \* link[c]: the state of the connection that call c opened
    using,      \* using[d]: the connection d's job is published over
    nc,         \* _nc: the call that opened the kept connection, or None
    together,   \* the most calls that were connecting at a time
    phase,      \* how far serve() has come
    raised,     \* shutdown raised
    audit       \* the connection of the audit publisher is open

natsVars ==
    <<call, records, jobs, buffered, link, using, nc, together, phase, raised, audit>>

NatsTypeOK ==
    /\ call \in [Docs -> {"none", "creating", "connecting", "publishing", "ok", "failed"}]
    /\ records \subseteq Docs /\ jobs \subseteq Docs /\ buffered \subseteq Docs
    /\ link \in [Docs -> {"none", "up", "down", "closed"}]
    /\ using \in [Docs -> Docs \cup {None}]
    /\ nc \in Docs \cup {None}
    /\ together \in Nat
    /\ phase \in {"serving", "stop_rpcs", "drain", "close", "exited"}
    /\ raised \in BOOLEAN /\ audit \in BOOLEAN

NatsInit ==
    /\ call = [d \in Docs |-> "none"]
    /\ records = {} /\ jobs = {} /\ buffered = {}
    /\ link = [d \in Docs |-> "none"]
    /\ using = [d \in Docs |-> None]
    /\ nc = None /\ together = 0
    /\ phase = "serving" /\ raised = FALSE /\ audit = TRUE

-----------------------------------------------------------------------------
In(s) == {d \in Docs : call[d] = s}

Becomes(d, s) == call' = [call EXCEPT ![d] = s]

(* js.publish over the connection c.                                       *)
Publish(d, c) == Becomes(d, "publishing") /\ using' = [using EXCEPT ![d] = c]

(* nats.connect                                                            *)
Open(d) ==
    LET connecting == Cardinality(In("connecting")) + 1
    IN  /\ Becomes(d, "connecting") /\ UNCHANGED using
        /\ together' = IF connecting > together THEN connecting ELSE together

(* Mutant: _connect does not look whether there is a connection.           *)
ConnectAlways(d) == Open(d)

(* _connect, up to its await: a connection that is set is kept, even when  *)
(* it is closed for good.                                                  *)
Connect(d) ==
    IF nc # None THEN Publish(d, nc) /\ UNCHANGED together ELSE Open(d)

(* server.stop refuses new calls only: one that was under way at the       *)
(* signal still comes to its handler.                                      *)
Accept(d) ==
    /\ phase \in {"serving", "stop_rpcs"} /\ call[d] = "none"
    /\ Becomes(d, "creating")
    /\ UNCHANGED <<records, jobs, buffered, link, using, nc, together, phase, raised, audit>>

Created(d) ==
    /\ call[d] = "creating"
    /\ records' = records \cup {d}
    /\ Connect(d)
    /\ UNCHANGED <<jobs, buffered, link, nc, phase, raised, audit>>

Connected(d) ==
    /\ call[d] = "connecting"
    /\ link' = [link EXCEPT ![d] = "up"]
    /\ nc' = d
    /\ Publish(d, d)
    /\ UNCHANGED <<records, jobs, buffered, together, phase, raised, audit>>

(* Mutant: the publish is not acknowledged before the call returns.        *)
PublishedUnacknowledged(d) ==
    /\ call[d] = "publishing" /\ link[using[d]] # "closed"
    /\ \/ jobs' = jobs \cup {d} /\ UNCHANGED buffered
       \/ buffered' = buffered \cup {d} /\ UNCHANGED jobs
    /\ Becomes(d, "ok")
    /\ UNCHANGED <<records, link, using, nc, together, phase, raised, audit>>

Published(d) ==
    /\ call[d] = "publishing" /\ link[using[d]] = "up"
    /\ jobs' = jobs \cup {d}
    /\ Becomes(d, "ok")
    /\ UNCHANGED <<records, buffered, link, using, nc, together, phase, raised, audit>>

(* The call fails: its client went away, the stopping server aborted it,   *)
(* the server it waits for failed or the connection is closed.  What it    *)
(* had sent may be done all the same, or be kept by the client of NATS.    *)
Fails(d) ==
    /\ call[d] \in {"creating", "connecting", "publishing"}
    /\ Becomes(d, "failed")
    /\ \/ UNCHANGED <<records, jobs, buffered>>
       \/ /\ call[d] = "creating"
          /\ records' = records \cup {d} /\ UNCHANGED <<jobs, buffered>>
       \/ /\ call[d] = "publishing" /\ link[using[d]] = "up"
          /\ jobs' = jobs \cup {d} /\ UNCHANGED <<records, buffered>>
       \/ /\ call[d] = "publishing" /\ link[using[d]] = "down"
          /\ buffered' = buffered \cup {d} /\ UNCHANGED <<records, jobs>>
    /\ UNCHANGED <<link, using, nc, together, phase, raised, audit>>

-----------------------------------------------------------------------------
(* The client of NATS: the connection is lost and found again, or given up *)
(* after too many attempts, and what was kept is sent or dropped.          *)
LinkChanges(c) ==
    /\ Outages /\ phase # "exited"
    /\ \/ /\ link[c] = "up" /\ link' = [link EXCEPT ![c] = "down"]
          /\ UNCHANGED buffered
       \/ /\ link[c] = "down" /\ link' = [link EXCEPT ![c] = "up"]
          /\ UNCHANGED buffered
       \/ /\ link[c] = "down" /\ link' = [link EXCEPT ![c] = "closed"]
          /\ buffered' = {d \in buffered : using[d] # c}
    /\ UNCHANGED <<call, records, jobs, using, nc, together, phase, raised, audit>>

Delivered(d) ==
    /\ d \in buffered /\ link[using[d]] = "up" /\ phase # "exited"
    /\ jobs' = jobs \cup {d}
    /\ buffered' = buffered \ {d}
    /\ UNCHANGED <<call, records, link, using, nc, together, phase, raised, audit>>

-----------------------------------------------------------------------------
Signal ==
    /\ phase = "serving"
    /\ phase' = "stop_rpcs"
    /\ UNCHANGED <<call, records, jobs, buffered, link, using, nc, together, raised, audit>>

(* server.stop returns: every call has ended or was aborted.               *)
RpcsStopped ==
    /\ phase = "stop_rpcs"
    /\ In("creating") \cup In("connecting") \cup In("publishing") = {}
    /\ phase' = "drain"
    /\ UNCHANGED <<call, records, jobs, buffered, link, using, nc, together, raised, audit>>

(* Mutants: shutdown forgets the connection without closing it; it waits   *)
(* for one that is lost.                                                   *)
DrainedNothing ==
    /\ phase = "drain"
    /\ nc' = None /\ phase' = "close"
    /\ UNCHANGED <<call, records, jobs, buffered, link, using, together, raised, audit>>

DrainedWaiting ==
    /\ phase = "drain"
    /\ nc # None => link[nc] = "up"
    /\ nc' = None /\ phase' = "close"
    /\ link' = [c \in Docs |-> IF c = nc THEN "closed" ELSE link[c]]
    /\ UNCHANGED <<call, records, jobs, buffered, using, together, raised, audit>>

(* NatsDispatch.shutdown: drain sends what was kept, then the connection   *)
(* is closed.  But drain raises when it is being reestablished or was      *)
(* given up, and then serve() ends at once.                                *)
Drained ==
    /\ phase = "drain"
    /\ \/ /\ nc # None => link[nc] = "up"
          /\ jobs' = jobs \cup {d \in buffered : using[d] = nc}
          /\ buffered' = {d \in buffered : using[d] # nc}
          /\ link' = [c \in Docs |-> IF c = nc THEN "closed" ELSE link[c]]
          /\ nc' = None /\ phase' = "close"
          /\ UNCHANGED raised
       \/ /\ nc # None /\ link[nc] # "up"
          /\ raised' = TRUE /\ phase' = "exited"
          /\ UNCHANGED <<jobs, buffered, link, nc>>
    /\ UNCHANGED <<call, records, using, together, audit>>

Closed ==
    /\ phase = "close"
    /\ audit' = FALSE
    /\ phase' = "exited"
    /\ UNCHANGED <<call, records, jobs, buffered, link, using, nc, together, raised>>

Exited == phase = "exited" /\ UNCHANGED natsVars

NatsNext ==
    \/ \E d \in Docs :
        \/ Accept(d) \/ Created(d) \/ Connected(d) \/ Published(d) \/ Fails(d)
        \/ LinkChanges(d) \/ Delivered(d)
    \/ Signal \/ RpcsStopped \/ Drained \/ Closed \/ Exited

(* Every await of a call ends, the stopping server aborts it if need be.   *)
NatsFairness ==
    /\ \A d \in Docs : WF_natsVars(Created(d) \/ Connected(d) \/ Published(d) \/ Fails(d))
    /\ WF_natsVars(RpcsStopped \/ Drained \/ Closed)

NatsSpec == NatsInit /\ [][NatsNext]_natsVars /\ NatsFairness

-----------------------------------------------------------------------------
(* A client that was given a document id can rely on it: the record and    *)
(* the job are there.  And no job, not even one that arrives long after    *)
(* its call failed, is about a document without a record.                  *)
AcceptedIsQueued ==
    /\ \A d \in Docs : call[d] = "ok" => d \in records /\ d \in jobs
    /\ jobs \cup buffered \subseteq records

(* One connection is shared; there are more only if calls were connecting  *)
(* at the same time, and no more than of those.                            *)
ConnectionsExplained ==
    Cardinality({c \in Docs : link[c] # "none"}) <= together

(* "Flush pending publishes and close the NATS connection": after a        *)
(* shutdown every connection is closed, but those opened beside the one    *)
(* that was kept, and nothing stays in its buffer.  Shutdown raises, and   *)
(* leaves the audit publisher open, only when that connection was lost.    *)
OrderlyExit ==
    phase = "exited" =>
        IF raised
        THEN nc # None /\ link[nc] \in {"down", "closed"}
        ELSE /\ ~audit
             /\ LET open == {c \in Docs : link[c] \in {"up", "down"}}
                IN  /\ open # {} => Cardinality(open) < together
                    /\ \A d \in buffered : using[d] \in open

(* A signal ends the process, whatever became of NATS.                     *)
NatsShutdownEnds == phase = "stop_rpcs" ~> phase = "exited"
=============================================================================
