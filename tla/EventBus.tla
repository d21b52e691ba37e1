------------------------------ MODULE EventBus ------------------------------
(***************************************************************************)
(* events.Bus: publishers on any goroutine, subscribers that read a        *)
(* buffered channel (Subscribe) or have a goroutine call their handler for  *)
(* each event (SubscribeFunc).  Publish copies the set of subscriptions     *)
(* under the read lock and sends without it, so subscriptions come and go   *)
(* while an event is on its way.                                            *)
(***************************************************************************)
EXTENDS Integers, Sequences, FiniteSets

CONSTANTS
  Subs,        \* subscriptions, each made once
  FuncSubs,    \* the ones made by SubscribeFunc
  Publishers,  \* goroutines that call Publish
  Types,       \* event types
  Filter,      \* the types each subscription asks for; none means all
  Buffer,      \* capacity of a subscription's channel (64 or 256 in the code)
  MaxEvents    \* bound on the number of events published

ASSUME BusSets ==
  /\ FuncSubs \subseteq Subs
  /\ IsFiniteSet(Publishers)
  /\ Filter \in [Subs -> SUBSET Types]
  /\ Buffer \in Nat \ {0}
  /\ MaxEvents \in Nat

VARIABLES
  subscribers, \* keys of b.subscribers
  channel,     \* what each subscription's channel holds
  open,        \* subscriptions whose channel is made and not closed
  loop,        \* where the goroutine of SubscribeFunc is
  sent,        \* the types of the events each publisher has published, in order
  current,     \* the event each publisher is sending
  targets,     \* the subscriptions it has copied and not yet visited
  got,         \* the events each subscriber has received, in order
  dropped,     \* the events dropped at a full channel
  over,        \* the number of events each publisher had published when the
               \* subscription was cancelled
  panicked     \* a send on a closed channel has ended the program

busVars == <<subscribers, channel, open, loop, sent, current, targets, got, dropped, over, panicked>>

Event == [pub : Publishers, n : 1..MaxEvents, type : Types]
NoEvent == [pub |-> "none", n |-> 0, type |-> "none"]
Unlimited == [p \in Publishers |-> MaxEvents]

Wanted(s, ev) == Filter[s] = {} \/ ev.type \in Filter[s]

BusInit ==
  /\ subscribers = {}
  /\ channel = [s \in Subs |-> <<>>]
  /\ open = {}
  /\ loop = [s \in Subs |-> "none"]
  /\ sent = [p \in Publishers |-> <<>>]
  /\ current = [p \in Publishers |-> NoEvent]
  /\ targets = [p \in Publishers |-> {}]
  /\ got = [s \in Subs |-> <<>>]
  /\ dropped = {}
  /\ over = [s \in Subs |-> Unlimited]
  /\ panicked = FALSE

-----------------------------------------------------------------------------
(* Subscribe and SubscribeFunc: make the channel and register it; the second *)
(* also starts the goroutine that reads it.                                  *)
Subscribe(s) ==
  /\ loop[s] = "none"
  /\ subscribers' = subscribers \cup {s}
  /\ open' = open \cup {s}
  /\ loop' = [loop EXCEPT ![s] = IF s \in FuncSubs THEN "running" ELSE "reader"]
  /\ UNCHANGED <<channel, sent, current, targets, got, dropped, over, panicked>>

(* Mutant of Unsubscribe: it does not take the subscription out of the map. *)
UnsubscribeKeeps(s) ==
  /\ s \in subscribers /\ over[s] = Unlimited
  /\ over' = [over EXCEPT ![s] = [p \in Publishers |-> Len(sent[p])]]
  /\ UNCHANGED <<subscribers, channel, open, loop, sent, current, targets, got, dropped, panicked>>

(* The closure that Subscribe and SubscribeFunc return. *)
Unsubscribe(s) ==
  /\ s \in subscribers
  /\ subscribers' = subscribers \ {s}
  /\ open' = open \ {s}
  /\ over' = [over EXCEPT ![s] = [p \in Publishers |-> Len(sent[p])]]
  /\ UNCHANGED <<channel, loop, sent, current, targets, got, dropped, panicked>>

(* Publish, first part: copy the subscriptions under the read lock. *)
Publish(p, type) ==
  /\ current[p] = NoEvent
  /\ Cardinality(UNION {{<<q, i>> : i \in DOMAIN sent[q]} : q \in Publishers}) < MaxEvents
  /\ sent' = [sent EXCEPT ![p] = Append(@, type)]
  /\ current' = [current EXCEPT ![p] = [pub |-> p, n |-> Len(sent[p]) + 1, type |-> type]]
  /\ targets' = [targets EXCEPT ![p] = subscribers]
  /\ UNCHANGED <<subscribers, channel, open, loop, got, dropped, over, panicked>>

(* Mutant of Send: a full channel's newest event is replaced without a record. *)
SendOverwriting(p, s) ==
  LET ev == current[p]
  IN
  /\ s \in targets[p]
  /\ targets' = [targets EXCEPT ![p] = @ \ {s}]
  /\ channel' = IF ~Wanted(s, ev) \/ s \notin open THEN channel
                ELSE IF Len(channel[s]) < Buffer
                     THEN [channel EXCEPT ![s] = Append(@, ev)]
                     ELSE [channel EXCEPT ![s][Buffer] = ev]
  /\ UNCHANGED <<subscribers, open, loop, sent, current, got, dropped, over, panicked>>

(* Publish, the loop over the copy, in any order: a subscription that does not *)
(* want the event is passed over, a full channel drops it, and a send on a      *)
(* channel closed in the meantime panics.                                       *)
Send(p, s) ==
  LET ev == current[p]
  IN
  /\ s \in targets[p]
  /\ targets' = [targets EXCEPT ![p] = @ \ {s}]
  /\ \/ /\ ~Wanted(s, ev)
        /\ UNCHANGED <<channel, dropped, panicked>>
     \/ /\ Wanted(s, ev) /\ s \notin open
        /\ panicked' = TRUE
        /\ UNCHANGED <<channel, dropped>>
     \/ /\ Wanted(s, ev) /\ s \in open /\ Len(channel[s]) < Buffer
        /\ channel' = [channel EXCEPT ![s] = Append(@, ev)]
        /\ UNCHANGED <<dropped, panicked>>
     \/ /\ Wanted(s, ev) /\ s \in open /\ Len(channel[s]) = Buffer
        /\ dropped' = dropped \cup {<<s, ev>>}
        /\ UNCHANGED <<channel, panicked>>
  /\ UNCHANGED <<subscribers, open, loop, sent, current, got, over>>

(* Publish returns. *)
Return(p) ==
  /\ current[p] # NoEvent /\ targets[p] = {}
  /\ current' = [current EXCEPT ![p] = NoEvent]
  /\ UNCHANGED <<subscribers, channel, open, loop, sent, targets, got, dropped, over, panicked>>

(* Mutant of Receive: a goroutine per event, so events overtake one another. *)
ReceiveAny(s) ==
  /\ loop[s] \in {"running", "reader"}
  /\ \E i \in DOMAIN channel[s] :
       /\ got' = [got EXCEPT ![s] = Append(@, channel[s][i])]
       /\ channel' = [channel EXCEPT ![s] = SubSeq(@, 1, i - 1) \o SubSeq(@, i + 1, Len(@))]
  /\ UNCHANGED <<subscribers, open, loop, sent, current, targets, dropped, over, panicked>>

(* The reader of the channel, or the goroutine of SubscribeFunc, takes the next *)
(* event; a closed channel still gives what it holds.                           *)
Receive(s) ==
  /\ loop[s] \in {"running", "reader"}
  /\ channel[s] # <<>>
  /\ got' = [got EXCEPT ![s] = Append(@, Head(channel[s]))]
  /\ channel' = [channel EXCEPT ![s] = Tail(@)]
  /\ UNCHANGED <<subscribers, open, loop, sent, current, targets, dropped, over, panicked>>

(* The goroutine sees stopCh closed: the select may prefer it to events that are *)
(* still in the channel.                                                         *)
LoopStop(s) ==
  /\ loop[s] = "running" /\ s \notin open
  /\ loop' = [loop EXCEPT ![s] = "stopped"]
  /\ UNCHANGED <<subscribers, channel, open, sent, current, targets, got, dropped, over, panicked>>

BusNext ==
  /\ ~panicked
  /\ \/ \E s \in Subs : Subscribe(s) \/ Unsubscribe(s) \/ Receive(s) \/ LoopStop(s)
     \/ \E p \in Publishers :
          \/ \E type \in Types : Publish(p, type)
          \/ \E s \in Subs : Send(p, s)
          \/ Return(p)

BusSpec == BusInit /\ [][BusNext]_busVars

-----------------------------------------------------------------------------
(* Every variable of Bus, its channels and its goroutines keeps its type. *)
BusTypeOK ==
  /\ subscribers \subseteq Subs
  /\ channel \in [Subs -> Seq(Event)]
  /\ open \subseteq Subs
  /\ loop \in [Subs -> {"none", "running", "reader", "stopped"}]
  /\ sent \in [Publishers -> Seq(Types)]
  /\ current \in [Publishers -> Event \cup {NoEvent}]
  /\ targets \in [Publishers -> SUBSET Subs]
  /\ got \in [Subs -> Seq(Event)]
  /\ dropped \subseteq Subs \X Event
  /\ over \in [Subs -> [Publishers -> 0..MaxEvents]]
  /\ panicked \in BOOLEAN

(* A subscriber receives the events of one goroutine in the order they were      *)
(* published and none twice, whatever was dropped in between: a task's terminal  *)
(* event is not followed by an older progress event.                             *)
InOrder ==
  \A s \in Subs :
    LET all == got[s] \o channel[s]
    IN \A i, j \in DOMAIN all : i < j /\ all[i].pub = all[j].pub => all[i].n < all[j].n

(* An event published after a subscription was cancelled does not reach it. *)
SilentAfterUnsubscribe ==
  \A s \in Subs : \A i \in DOMAIN got[s] : got[s][i].n <= over[s][got[s][i].pub]

(* A subscriber that stays subscribed misses an event it wants only because its  *)
(* channel was full at that moment: what is neither received nor waiting was     *)
(* dropped, or is still to be sent, or was published before the subscription.    *)
OnlyFullDrops ==
  \A p \in Publishers, s \in subscribers :
    LET seen == got[s] \o channel[s]
        mine == {i \in DOMAIN seen : seen[i].pub = p}
    IN \A i \in mine : \A n \in (seen[i].n)..Len(sent[p]) :
         LET ev == [pub |-> p, n |-> n, type |-> sent[p][n]]
         IN \/ ev \in {seen[j] : j \in mine}
            \/ <<s, ev>> \in dropped
            \/ ~Wanted(s, ev)
            \/ current[p] = ev /\ s \in targets[p]

(* What a subscriber receives is what was published while it was subscribed, in  *)
(* that order and without gaps other than those of a full channel, whoever       *)
(* publishes or cancels meanwhile (Publish, SubscribeFunc).                      *)
Delivery == InOrder /\ SilentAfterUnsubscribe /\ OnlyFullDrops

(* "Bus is a thread-safe event broker": no interleaving of Publish and the       *)
(* unsubscribe closures ends the program.                                        *)
NoPanic == ~panicked

=============================================================================
