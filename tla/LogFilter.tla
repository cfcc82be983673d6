------------------------------ MODULE LogFilter ------------------------------
(***************************************************************************)
(* BoundContract.FilterLogs and WatchLogs (accounts/abi/bind/base.go:      *)
(* 479-558) and the subscription each returns.                            *)
(*                                                                         *)
(* FilterLogs asks the backend for all matching logs (buff), then starts a *)
(* producer goroutine through event.NewSubscription.  That goroutine sends *)
(* the logs one by one into a channel of capacity Cap (128 in the code),   *)
(* in a select that also watches quit.  The caller (the consumer) receives *)
(* from the channel, may Unsubscribe at any time, or may simply drop the   *)
(* iterator.                                                               *)
(*                                                                         *)
(* A log is [n, topic]: its position in the chain and its first topic   *)
(* (an event ID, or NoTopic for a log without topics).  The caller decodes *)
(* every log it receives with UnpackLog for the same event name.          *)
(*                                                                         *)
(* event.NewSubscription is not in this repository.  Its behaviour is      *)
(* modelled from its documentation: after the producer returns, the        *)
(* subscription is marked unsubscribed and Err() is closed, under the      *)
(* subscription's mutex.  Unsubscribe closes quit and waits for Err() to    *)
(* close; if the subscription was already ended, it returns at once.       *)
(*                                                                         *)
(* WatchLogs hands the same kind of channel to the backend's               *)
(* SubscribeFilterLogs, which is not in this repository either.  It is     *)
(* modelled from the ContractFilterer contract: the backend keeps the      *)
(* matching logs (the past ones from opts.Start, then each new one) and a  *)
(* forwarder sends them into the channel in order, blocking while it is    *)
(* full, until Unsubscribe.                                                *)
(***************************************************************************)
EXTENDS Integers, Sequences, SequencesExt

CONSTANTS
    Cap,       \* capacity of the logs channel (make(chan types.Log, 128))
    MaxLogs,   \* most logs the contract emitted in the queried range
    EventIDs,  \* IDs of the contract's events
    Selector,  \* c.abi.Events[name].ID for the name FilterLogs is given
    NoTopic,   \* first topic of a log that has none (anonymous event)
    None

Topics == EventIDs \cup {NoTopic}
Log == [n : 1..MaxLogs, topic : Topics]

VARIABLES
    phase,     \* "init", "blocked", "failed" (the call returned an error),
               \* "filtered" (FilterLogs returned), "watching" (WatchLogs did)
    buff,      \* the logs the backend matched, numbered 1..Len(buff)
    next,      \* index into buff of the producer's loop
    prod,      \* producer goroutine: "running" or "returned"
    ch,        \* contents of the logs channel
    quit,      \* the quit channel is closed
    unsub,     \* funcSub.unsubscribed
    errClosed, \* Err() is closed
    cons,      \* consumer: "reading", "waiting" (in Unsubscribe), "done",
               \* "drained" (saw the end), "gone" (dropped it)
    got,       \* logs the consumer received, in order
    ctx        \* opts.Context is a context with a deadline (not nil)

vars == <<phase, buff, next, prod, ch, quit, unsub, errClosed, cons, got, ctx>>

\* Mutant: the event selector is not prepended; topic 0 is unconstrained.
QueryNoSelector == Topics

\* The first-topic alternatives of the query (base.go:485-492): the event
\* selector is prepended to the caller's query; MakeTopics keeps it.
Query == {Selector}

\* The backend's FilterLogs: the contract's logs, in chain order, whose
\* first topic is one of the alternatives (a log without topics matches
\* no constrained position).
Matches(l, q) == l.topic \in q /\ l.topic # NoTopic

BackendFilterLogs(chain, q) ==
    SelectSeq([i \in DOMAIN chain |-> [n |-> i, topic |-> chain[i]]],
              LAMBDA l : Matches(l, q))

\* The results of a query over any chain of up to MaxLogs logs.
PastLogs(q) ==
    {BackendFilterLogs(chain, q) : chain \in UNION {[1..k -> Topics] : k \in 0..MaxLogs}}

\* ensureContext (base.go:614-619): only a non-nil opts.Context has a
\* deadline; context.Background() has none.
Deadline(c) == c

\* UnpackLog's checks before it decodes (base.go:563-584): anonymous logs
\* are refused, and topic 0 must be the event's ID.  Decoding the data and
\* the indexed topics is ABI work and is taken to succeed.
UnpackLog(l) ==
    CASE l.topic = NoTopic   -> "errNoEventSignature"
      [] l.topic # Selector  -> "errEventSignatureMismatch"
      [] OTHER               -> "ok"

\* UnpackLogIntoMap makes the same two checks before it decodes into a map
\* (base.go:588-610).
UnpackLogIntoMap(l) == UnpackLog(l)

Init ==
    /\ phase = "init"
    /\ buff = <<>>
    /\ next = 1
    /\ prod = None
    /\ ch = <<>>
    /\ quit = FALSE
    /\ unsub = FALSE
    /\ errClosed = FALSE
    /\ cons = None
    /\ got = <<>>
    /\ ctx \in BOOLEAN

(* ACTION FilterLogs: build the topics (which may fail), query the backend *)
(* (which may fail or block), then start the producer (base.go:482-523).  *)
(* The contract emitted up to MaxLogs logs with any first topics.         *)
FilterLogs ==
    /\ phase = "init"
    /\ \/ /\ phase' \in {"failed", "blocked"}
          /\ UNCHANGED <<buff, next, prod, cons, ctx>>
       \/ /\ phase' = "filtered"
          /\ buff' \in PastLogs(Query)
          /\ next' = 1
          /\ prod' = "running"
          /\ cons' = "reading"
    /\ UNCHANGED <<ch, quit, unsub, errClosed, got, ctx>>

(* ACTION WatchLogs: build the topics (which may fail), then subscribe    *)
(* (which may fail or block) with FromBlock set only when opts.Start is   *)
(* (base.go:529-558).  A subscription from Start first matches the past   *)
(* logs; one from the latest block starts with none.                      *)
WatchLogs ==
    /\ phase = "init"
    /\ \/ /\ phase' \in {"failed", "blocked"}
          /\ UNCHANGED <<buff, next, prod, cons, ctx>>
       \/ /\ phase' = "watching"
          /\ \E start \in BOOLEAN :
                buff' \in IF start THEN PastLogs(Query) ELSE {<<>>}
          /\ next' = 1
          /\ prod' = "running"
          /\ cons' = "reading"
    /\ UNCHANGED <<ch, quit, unsub, errClosed, got, ctx>>

(* ACTION Emit: a new block brings a log of the contract; the backend     *)
(* keeps it if it matches the subscription's topics.                      *)
Emit ==
    /\ phase = "watching" /\ prod = "running"
    /\ Len(buff) < MaxLogs
    /\ \E t \in Topics :
          LET l == [n |-> Len(buff) + 1, topic |-> t]
          IN  buff' = IF Matches(l, Query) THEN Append(buff, l) ELSE buff
    /\ UNCHANGED <<phase, next, prod, ch, quit, unsub, errClosed, cons, got, ctx>>

(* ACTION Forward: the backend's forwarder sends the next matched log,    *)
(* blocking while the channel is full.                                    *)
Forward ==
    /\ phase = "watching" /\ prod = "running"
    /\ next <= Len(buff)
    /\ Len(ch) < Cap
    /\ ch' = Append(ch, buff[next])
    /\ next' = next + 1
    /\ UNCHANGED <<phase, buff, prod, quit, unsub, errClosed, cons, got, ctx>>

(* ACTION ForwarderReturn: after Unsubscribe, the forwarder stops and the *)
(* subscription's Err() is closed.                                        *)
ForwarderReturn ==
    /\ phase = "watching" /\ prod = "running"
    /\ quit
    /\ prod' = "returned"
    /\ errClosed' = TRUE
    /\ UNCHANGED <<phase, buff, next, ch, quit, unsub, cons, got, ctx>>

(* ACTION Timeout: the deadline of opts.Context ends a blocked backend    *)
(* query or subscription; the call returns the context's error.           *)
Timeout ==
    /\ phase = "blocked"
    /\ Deadline(ctx)
    /\ phase' = "failed"
    /\ UNCHANGED <<buff, next, prod, ch, quit, unsub, errClosed, cons, got, ctx>>

ProducerSendNoCap ==
    /\ phase = "filtered" /\ prod = "running"
    /\ next <= Len(buff)
    /\ ch' = Append(ch, buff[next])
    /\ next' = next + 1
    /\ UNCHANGED <<phase, buff, prod, quit, unsub, errClosed, cons, got, ctx>>

ProducerSendOffByOne ==
    /\ phase = "filtered" /\ prod = "running"
    /\ next <= Len(buff)
    /\ Len(ch) < Cap - 1
    /\ ch' = Append(ch, buff[next])
    /\ next' = next + 1
    /\ UNCHANGED <<phase, buff, prod, quit, unsub, errClosed, cons, got, ctx>>

ProducerSendStale ==
    /\ phase = "filtered" /\ prod = "running"
    /\ next <= Len(buff)
    /\ Len(ch) < Cap
    /\ ch' = Append(ch, buff[next])
    /\ UNCHANGED <<phase, buff, next, prod, quit, unsub, errClosed, cons, got, ctx>>

(* ACTION ProducerSend: the "case logs <- log" arm of the select, ready   *)
(* while the channel has room (base.go:513-515).                          *)
ProducerSend ==
    /\ phase = "filtered" /\ prod = "running"
    /\ next <= Len(buff)
    /\ Len(ch) < Cap
    /\ ch' = Append(ch, buff[next])
    /\ next' = next + 1
    /\ UNCHANGED <<phase, buff, prod, quit, unsub, errClosed, cons, got, ctx>>

ProducerReturnEarly ==
    /\ phase = "filtered" /\ prod = "running"
    /\ quit \/ next >= Len(buff)
    /\ prod' = "returned"
    /\ unsub' = TRUE
    /\ errClosed' = TRUE
    /\ UNCHANGED <<phase, buff, next, ch, quit, cons, got, ctx>>

ProducerReturnNoQuit ==
    /\ phase = "filtered" /\ prod = "running"
    /\ next > Len(buff)
    /\ prod' = "returned"
    /\ unsub' = TRUE
    /\ errClosed' = TRUE
    /\ UNCHANGED <<phase, buff, next, ch, quit, cons, got, ctx>>

(* ACTION ProducerReturn: the producer returns nil, either through the    *)
(* "case <-quit" arm or when the loop ends (base.go:516-520).  The        *)
(* subscription then marks itself unsubscribed and closes Err().          *)
ProducerReturn ==
    /\ phase = "filtered" /\ prod = "running"
    /\ quit \/ next > Len(buff)
    /\ prod' = "returned"
    /\ unsub' = TRUE
    /\ errClosed' = TRUE
    /\ UNCHANGED <<phase, buff, next, ch, quit, cons, got, ctx>>

(* ACTION Receive: the consumer takes the oldest log from the channel.    *)
Receive ==
    /\ cons = "reading"
    /\ ch # <<>>
    /\ got' = Append(got, Head(ch))
    /\ ch' = Tail(ch)
    /\ UNCHANGED <<phase, buff, next, prod, quit, unsub, errClosed, cons, ctx>>

(* ACTION Finish: the consumer sees Err() closed with nothing left in the *)
(* channel, and stops.                                                    *)
Finish ==
    /\ cons = "reading"
    /\ errClosed
    /\ ch = <<>>
    /\ cons' = "drained"
    /\ UNCHANGED <<phase, buff, next, prod, ch, quit, unsub, errClosed, got, ctx>>

(* ACTION Unsubscribe: return at once if already unsubscribed; otherwise  *)
(* mark it, close quit, and wait for Err() to close.                      *)
Unsubscribe ==
    /\ cons = "reading"
    /\ \/ /\ unsub
          /\ cons' = "done"
          /\ UNCHANGED <<quit, unsub, ctx>>
       \/ /\ ~unsub
          /\ unsub' = TRUE
          /\ quit' = TRUE
          /\ cons' = "waiting"
    /\ UNCHANGED <<phase, buff, next, prod, ch, errClosed, got, ctx>>

(* ACTION Unsubscribed: Unsubscribe's wait on Err() ends.                 *)
Unsubscribed ==
    /\ cons = "waiting"
    /\ errClosed
    /\ cons' = "done"
    /\ UNCHANGED <<phase, buff, next, prod, ch, quit, unsub, errClosed, got, ctx>>

(* ACTION Abandon: the caller drops the channel and subscription without  *)
(* reading further or calling Unsubscribe.                                *)
Abandon ==
    /\ cons = "reading"
    /\ cons' = "gone"
    /\ UNCHANGED <<phase, buff, next, prod, ch, quit, unsub, errClosed, got, ctx>>

Next ==
    \/ FilterLogs
    \/ WatchLogs
    \/ Emit
    \/ Forward
    \/ ForwarderReturn
    \/ Timeout
    \/ ProducerSend
    \/ ProducerReturn
    \/ Receive
    \/ Finish
    \/ Unsubscribe
    \/ Unsubscribed
    \/ Abandon

\* The Go scheduler runs a runnable goroutine: the producer, the backend's
\* forwarder, and a caller blocked in Unsubscribe once Err() is closed, are
\* weakly fair.  The consumer's reads are the caller's choice and new
\* blocks come when they come: neither gets fairness.
Fairness ==
    /\ WF_vars(ProducerSend)
    /\ WF_vars(ProducerReturn)
    /\ WF_vars(Forward)
    /\ WF_vars(ForwarderReturn)
    /\ WF_vars(Unsubscribed)

Spec == Init /\ [][Next]_vars /\ Fairness

-----------------------------------------------------------------------------

TypeOK ==
    /\ phase \in {"init", "blocked", "failed", "filtered", "watching"}
    /\ buff \in Seq(Log) /\ Len(buff) <= MaxLogs
    /\ next \in 1..(MaxLogs + 1)
    /\ prod \in {None, "running", "returned"}
    /\ ch \in Seq(Log) /\ Len(ch) <= Cap
    /\ {quit, unsub, errClosed} \subseteq BOOLEAN
    /\ cons \in {None, "reading", "waiting", "done", "drained", "gone"}
    /\ got \in Seq(Log)
    /\ ctx \in BOOLEAN

\* A consumer that reads until Err() is closed and finds the channel empty
\* has received every log the backend returned, each once and in order.
\* Err() closes only after the producer's loop has sent the last log
\* (base.go:513-520).
DrainedHasAll == cons = "drained" => got = buff

\* What the consumer has received, at every moment, is the start of what
\* the backend matched, in order, with no log lost, repeated or reordered,
\* however the producer's sends, the consumer's reads and Unsubscribe
\* interleave, for FilterLogs' replay (base.go:512-521) and WatchLogs'
\* subscription alike.
DeliveredInOrder == IsPrefix(got, buff)

\* When the backend returns no more logs than the channel holds, the
\* producer goroutine always returns, even if the caller drops the
\* iterator without reading or unsubscribing (base.go:495, 512-521).
LeakFreeWhenFits ==
    (phase = "filtered" /\ Len(buff) <= Cap) ~> prod = "returned"

\* Unsubscribe never hangs.  A producer blocked on a full channel still
\* leaves through the quit arm of its select (base.go:514-517).
UnsubscribeReturns == cons = "waiting" ~> cons = "done"

\* Every log FilterLogs or WatchLogs delivers for an event name passes the
\* signature checks of UnpackLog and UnpackLogIntoMap for that name: the
\* selector both put in topic 0 (base.go:487, 537) is the ID the decoders
\* compare with (base.go:568, 593), so neither
\* logs of the contract's other events nor anonymous logs get through.
DeliveredLogsUnpack ==
    \A i \in DOMAIN got : UnpackLog(got[i]) = "ok" /\ UnpackLogIntoMap(got[i]) = "ok"

=============================================================================
