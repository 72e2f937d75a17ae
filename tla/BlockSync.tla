----------------------------- MODULE BlockSync -----------------------------
(***************************************************************************)
(* How a node catches up with its peers: net/node.cpp asks every peer for  *)
(* the ids of the blocks it is missing, fetches the blocks from several    *)
(* peers at once, and hands them in order to the chain (the delegate,      *)
(* app/application.cpp), while blocks offered in normal operation keep     *)
(* arriving.                                                               *)
(*                                                                         *)
(* The p2p thread runs message handlers and tasks one at a time, but it    *)
(* yields whenever it calls the delegate.  The variable calls is the queue *)
(* of calls the delegate's thread has yet to answer; everything between    *)
(* two such calls is one step.  A peer runs the same program: it answers   *)
(* its requests in order, from the chain it has when it answers.           *)
(*                                                                         *)
(* A block is a number whose last digit is its height, as num_from_id      *)
(* reads the height out of a block id.                                     *)
(***************************************************************************)
EXTENDS Integers, Sequences, FiniteSets, SequencesExt

CONSTANTS
    Peers,          \* the nodes this node is connected to
    Chains,         \* the branches of the block tree, each from height 1
    Bad,            \* blocks this node's chain refuses to apply
    Start,          \* this node's chain when it starts
    Window,         \* length of the undo history and of the fork database
    ReplyLimit,     \* ids in one reply (limit = 2000)
    MinPrefetch,    \* GRAPHENE_NET_MIN_BLOCK_IDS_TO_PREFETCH
    MaxPerPeer,     \* _maximum_blocks_per_peer_during_syncing
    MaxInProgress,  \* _maximum_number_of_blocks_to_handle_at_one_time
    MaxPrefetch,    \* _maximum_number_of_sync_blocks_to_prefetch
    RemoteStart,    \* the chains of the peers at the start
    MaxEvents,      \* bound: blocks the peers add and connections lost
    MaxLosses       \* bound: connections lost

ASSUME BoundsAssumption ==
    /\ {Window, ReplyLimit, MaxPerPeer, MaxInProgress} \subseteq Nat \ {0}
    /\ {MinPrefetch, MaxPrefetch, MaxEvents, MaxLosses} \subseteq Nat
    /\ {Start} \cup Range(RemoteStart) \subseteq UNION {Prefixes(c) : c \in Chains}

None == 0
Blocks == UNION {Range(c) : c \in Chains}
ChainStates == UNION {Prefixes(c) : c \in Chains}
Num(b) == b % 10
Branch(b) == LET c == CHOOSE c \in Chains : b \in Range(c) IN SubSeq(c, 1, Num(b))
Parent(b) == IF Num(b) = 1 THEN None ELSE Branch(b)[Num(b) - 1]

VARIABLES
    chain,          \* the delegate's current chain
    forks,          \* blocks of the fork database off the current chain
    link,           \* "active", "closing" (on the closing list) or "closed"
    peer,           \* the peer_connection object of every peer
    active_sync_requests, new_received, received, accepted,
    suspended,      \* _suspend_fetching_sync_blocks
    to_fetch,       \* blocks offered in normal operation and not requested yet
    announced,      \* blocks accepted in normal operation and advertised
    calls,          \* calls to the delegate that have not returned
    backlog,        \* process_backlog_of_sync_blocks is scheduled
    fetching,       \* fetch_sync_items_loop has been triggered
    fetching_items, \* fetch_items_loop has been triggered
    remote,         \* the chain of every peer
    behind,         \* what the peer believes: this node needs sync items from it
    inbox,          \* requests a peer has yet to answer
    growth, losses

node == <<active_sync_requests, new_received, received, accepted, suspended,
          to_fetch, announced, backlog, fetching, fetching_items>>
vars == <<chain, forks, link, peer, node, calls, remote, behind, inbox, growth, losses>>

Active == {p \in Peers : link[p] = "active"}
Known == Range(chain) \cup forks
-----------------------------------------------------------------------------
(* The delegate: pushing a block, and the ids a synopsis is made of. *)

FreshPeer ==
    [ids_of_items_to_get |-> <<>>, number_of_unfetched |-> 0, being_processed |-> {},
     we_need |-> TRUE, peer_needs |-> TRUE, last_seen |-> None, asked |-> <<>>,
     item_ids_requested |-> FALSE, sync_requested |-> {}, requested |-> {},
     inventory |-> {}]

(* Mutant: the fork database takes blocks for too old one block early. *)
PushResultEarly(b) ==
    IF Num(b) <= Len(chain) - Window + 1 THEN "old"
    ELSE IF Num(b) > 1 /\ Parent(b) \notin Known THEN "unlinkable"
    ELSE IF Num(b) > Len(chain) /\ \E x \in Range(Branch(b)) : x \in Bad THEN "invalid"
    ELSE "ok"

(* push_block: too old for the fork database, unlinkable, refused, or taken. *)
PushResult(b) ==
    IF Num(b) <= Len(chain) - Window THEN "old"
    ELSE IF Num(b) > 1 /\ Parent(b) \notin Known THEN "unlinkable"
    ELSE IF Num(b) > Len(chain) /\ \E x \in Range(Branch(b)) : x \in Bad THEN "invalid"
    ELSE "ok"

Push(b) ==
    CASE PushResult(b) = "ok" /\ Num(b) > Len(chain) ->
            /\ chain' = Branch(b)
            /\ forks' = (Known \cup {b}) \ Range(Branch(b))
      [] PushResult(b) = "ok" /\ Num(b) <= Len(chain) ->
            /\ chain' = chain
            /\ forks' = (forks \cup {b}) \ Range(chain)
      [] PushResult(b) = "invalid" ->
            /\ chain' = chain
            /\ forks' = {x \in forks : Range(Branch(x)) \cap Bad = {}}
      [] OTHER -> UNCHANGED <<chain, forks>>

(* The heights a synopsis lists between low and high: each step halves the
   distance to top, the height of the last block the peer is known to have. *)
RECURSIVE Heights(_, _, _)
Heights(low, high, top) ==
    IF low > high THEN <<>>
    ELSE <<low>> \o Heights(low + ((top - low + 2) \div 2), high, top)

LowestUndoable == Max({0, Len(chain) - Window})
ForkPoint(b) == CHOOSE n \in 0 .. Num(b) :
    /\ \A i \in 1 .. n : i <= Len(chain) /\ chain[i] = Branch(b)[i]
    /\ n = Num(b) \/ n = Len(chain) \/ chain[n + 1] # Branch(b)[n + 1]

(* get_blockchain_synopsis followed by create_blockchain_synopsis_for_peer:
   reference is the last block of the peer this node has pushed, ids the
   blocks the peer has named that are still to be fetched. *)
ForkedTooLongAgo(reference) ==
    /\ reference # None
    /\ reference \notin Range(chain)
    /\ ForkPoint(reference) < LowestUndoable

create_blockchain_synopsis_for_peer(reference, ids) ==
    LET own == IF reference = None THEN chain ELSE Branch(reference)
        lowest == IF reference \in Range(chain) THEN Min({LowestUndoable, Len(own)})
                  ELSE LowestUndoable
        low == Max({1, lowest})
        ours == IF own = <<>> THEN <<>>
                ELSE Heights(low, Len(own), Len(own) + Len(ids))
        front == IF ours = <<>> THEN 1 ELSE ours[1]
        top == Num(Last(ids))
        theirs == IF ids = <<>> THEN <<>>
                  ELSE SelectSeq(Heights(front, top, top), LAMBDA n : n >= Num(ids[1]))
    IN  [i \in DOMAIN ours |-> own[ours[i]]]
          \o [i \in DOMAIN theirs |-> ids[theirs[i] - Num(ids[1]) + 1]]

(* get_block_ids: the blocks of a chain from the last one the synopsis names. *)
get_block_ids(c, synopsis) ==
    LET common == {i \in DOMAIN synopsis : synopsis[i] \in Range(c)}
        first == IF synopsis = <<>> THEN 1 ELSE Num(synopsis[Max(common)])
    IN  IF c = <<>> \/ (synopsis # <<>> /\ common = {}) THEN <<>>
        ELSE SubSeq(c, first, Min({Len(c), first + ReplyLimit - 1}))

(* on_fetch_blockchain_item_ids_message: whether the one who asked needs items. *)
NeedsItems(reply, synopsis) ==
    reply # <<>> /\ ~ (synopsis # <<>> /\ Len(reply) = 1 /\ reply[1] \in Range(synopsis))
-----------------------------------------------------------------------------
(* The peer connection and the tasks a handler starts. *)

idle(c) == c.requested = {} /\ c.sync_requested = {} /\ ~ c.item_ids_requested

(* A call of fetch_next_batch_of_item_ids_from_peer, up to the point where it
   waits for the synopsis.  The task that waits is the peer's read loop
   ("reader"), send_sync_block_to_node_delegate ("block") or
   process_backlog_of_sync_blocks ("backlog"); rest lists the peers that task
   asks next. *)
fetch_next_batch(p, c, task, rest) ==
    [kind |-> "synopsis", peer |-> p, block |-> c.last_seen,
     ids |-> c.ids_of_items_to_get, task |-> task, rest |-> rest]
BlockCall(kind, p, b) ==
    [kind |-> kind, peer |-> p, block |-> b, ids |-> <<>>,
     task |-> IF kind = "sync" THEN "block" ELSE "reader", rest |-> <<>>]

InProgress(xs) == Len(SelectSeq(xs, LAMBDA x : x.task = "block"))
BacklogRunning(xs) == \E i \in DOMAIN xs : xs[i].task = "backlog"

start_synchronizing(c) ==
    [c EXCEPT !.ids_of_items_to_get = <<>>, !.number_of_unfetched = 0,
              !.we_need = TRUE, !.last_seen = None]

(* A task goes on to the next of the peers it asks, restarting sync with it
   where again says so; after the last one, a block's task triggers the backlog
   unless that task still runs, and the backlog's task the fetching of blocks.
   cs, queue and blocks are the peers, calls and received blocks by then. *)
(* Mutant: after the last block of a list nobody is asked for more. *)
PeersNotAsked(ps, again) == <<>>
PeersToAsk(ps, again) ==
    LET order == SetToSeq(ps) IN [i \in DOMAIN order |-> [peer |-> order[i], again |-> again]]

FollowUp(task, rest, cs, queue, blocks) ==
    \/ /\ rest # <<>>
       /\ LET p == Head(rest).peer
              c == IF Head(rest).again THEN start_synchronizing(cs[p]) ELSE cs[p]
          IN  /\ peer' = [cs EXCEPT ![p] = c]
              /\ calls' = Append(queue, fetch_next_batch(p, c, task, Tail(rest)))
       /\ backlog' = (task # "backlog" /\ backlog)
       /\ suspended' = (task # "backlog" /\ suspended)
       /\ UNCHANGED fetching
    \/ /\ rest = <<>>
       /\ peer' = cs /\ calls' = queue
       /\ backlog' = (task # "backlog" /\ (backlog \/ (task = "block" /\ ~ BacklogRunning(queue))))
       /\ suspended' = IF task = "backlog"
                        THEN InProgress(queue) >= MaxInProgress /\ Len(blocks) >= MaxPrefetch
                        ELSE suspended
       /\ fetching' = (fetching \/ (task = "backlog" /\ ~ suspended'))

Reading(p) ==
    /\ link[p] # "closed"
    /\ \A i \in DOMAIN calls : ~ (calls[i].peer = p /\ calls[i].task = "reader")

(* The objects of a connection disappear with it: a synopsis under way is of no
   use to anyone, the tasks that push blocks go on. *)
Forget(p) ==
    LET kept == SelectSeq(calls, LAMBDA x : ~ (x.kind = "synopsis" /\ x.peer = p /\ x.task = "reader"))
    IN  [i \in DOMAIN kept |->
            [kept[i] EXCEPT !.peer = IF @ = p THEN None ELSE @,
                            !.rest = SelectSeq(@, LAMBDA r : r.peer # p)]]

(* on_fetch_blockchain_item_ids_message, when the peer asks with a synopsis of
   the chain c: whether it needs items, and whether it names a last block this
   node lacks, so that sync with it starts again. *)
AskedFor(p, c) ==
    LET heights == Heights(1, Len(c), Len(c))
        synopsis == [i \in DOMAIN heights |-> c[heights[i]]]
    IN  NeedsItems(get_block_ids(chain, synopsis), synopsis)

on_fetch_blockchain_item_ids(p, c) ==
    LET told == [peer[p] EXCEPT !.peer_needs = AskedFor(p, c)]
        again == start_synchronizing(told)
        restart == ~ told.we_need /\ Last(c) \notin Known
    IN  /\ peer' = [peer EXCEPT ![p] = IF restart THEN again ELSE told]
        /\ calls' = IF restart THEN Append(calls, fetch_next_batch(p, again, "reader", <<>>)) ELSE calls

(* new_peer_just_added, once the handshake is over; the peer asks too. *)
new_peer_just_added(p) ==
    LET c == [FreshPeer EXCEPT !.peer_needs = AskedFor(p, remote[p])]
    IN  /\ link[p] = "closed"
        /\ link' = [link EXCEPT ![p] = "active"]
        /\ peer' = [peer EXCEPT ![p] = start_synchronizing(c)]
        /\ calls' = Append(calls, fetch_next_batch(p, c, "reader", <<>>))
        /\ behind' = [behind EXCEPT ![p] = TRUE]
        /\ UNCHANGED <<chain, forks, node, remote, inbox, growth, losses>>

(* on_connection_closed: what was asked of the peer is asked of another one. *)
on_connection_closed(p) ==
    LET lost == {b \in peer[p].requested :
                    \E q \in Active \ {p} : b \in peer[q].inventory}
    IN  /\ link' = [link EXCEPT ![p] = "closed"]
        /\ peer' = [peer EXCEPT ![p] = FreshPeer]
        /\ active_sync_requests' = active_sync_requests \ peer[p].sync_requested
        /\ fetching' = (fetching \/ peer[p].sync_requested # {})
        /\ to_fetch' = to_fetch \cup lost
        /\ fetching_items' = (fetching_items \/ peer[p].requested # {})
        /\ calls' = Forget(p)
        /\ inbox' = [inbox EXCEPT ![p] = <<>>]
        /\ UNCHANGED <<chain, forks, new_received, received, accepted, suspended,
                       announced, backlog, remote, behind, growth>>

(* The peer answers the closing message, or is given up. *)
ClosingPeerGone(p) ==
    /\ link[p] = "closing"
    /\ on_connection_closed(p)
    /\ UNCHANGED losses

(* The connection is lost, or terminate_inactive_connections_loop ends it
   because an answer is late or sync seems to have stalled. *)
Lose(p) ==
    /\ link[p] = "active"
    /\ losses < MaxLosses /\ growth + losses < MaxEvents
    /\ losses' = losses + 1
    /\ on_connection_closed(p)

-----------------------------------------------------------------------------
(* Replies to what this node asked. *)

(* Mutant: the first unknown block is dropped with the known ones. *)
DropKnownAndNext(ids) ==
    LET n == CHOOSE n \in 0 .. Len(ids) :
                /\ \A i \in 1 .. n : ids[i] \in Known
                /\ n = Len(ids) \/ ids[n + 1] \notin Known
    IN  Min({n + 1, Len(ids)})
DropKnown(ids) ==
    LET n == CHOOSE n \in 0 .. Len(ids) :
                /\ \A i \in 1 .. n : ids[i] \in Known
                /\ n = Len(ids) \/ ids[n + 1] \notin Known
    IN  n

FirstItemForOther(p, b) ==
    \E q \in Active \ {p} :
        /\ peer[q].ids_of_items_to_get # <<>>
        /\ Head(peer[q].ids_of_items_to_get) = b

(* The peer's list with the ids of a reply merged in: the known front of the
   reply is dropped from an empty list, and a list under way is cut back to
   where the reply starts, the peer having switched forks perhaps. *)
MergeIds(p, reply) ==
    LET c == [peer[p] EXCEPT !.item_ids_requested = FALSE, !.asked = <<>>]
        list == c.ids_of_items_to_get
        n == DropKnown(reply)
        kept == {i \in DOMAIN list : list[i] = reply[1]}
    IN  IF reply = <<>> THEN c
        ELSE IF list = <<>> /\ FirstItemForOther(p, reply[1])
        THEN [c EXCEPT !.ids_of_items_to_get = reply]
        ELSE IF list = <<>>
        THEN [c EXCEPT !.ids_of_items_to_get = SubSeq(reply, n + 1, Len(reply)),
                       !.last_seen = IF n = 0 THEN @ ELSE reply[n]]
        ELSE IF kept = {}
        THEN [c EXCEPT !.ids_of_items_to_get = Tail(reply), !.last_seen = reply[1]]
        ELSE [c EXCEPT !.ids_of_items_to_get = SubSeq(list, 1, Max(kept) - 1) \o reply]

(* Whether the ids at hand are enough to start fetching blocks. *)
EnoughIds(c) ==
    IF c.number_of_unfetched # 0 THEN Len(c.ids_of_items_to_get) > MinPrefetch
    ELSE c.ids_of_items_to_get # <<>>

on_blockchain_item_ids_inventory(p, reply, remaining) ==
    LET c == peer[p]
        expected == IF c.asked = <<>> THEN Num(reply[1]) = 1
                    ELSE reply[1] \in Range(c.asked)
        upToDate == /\ remaining = 0
                    /\ reply = <<>> \/ (Len(reply) = 1 /\ reply[1] \in Known)
                    /\ c.ids_of_items_to_get = <<>>
                    /\ c.number_of_unfetched = 0
        merged == [MergeIds(p, reply) EXCEPT !.number_of_unfetched = remaining]
        enough == EnoughIds(merged)
    IN  \/ /\ ~ c.item_ids_requested
           /\ UNCHANGED <<link, peer, calls, fetching>>
        \/ /\ c.item_ids_requested
           /\ reply # <<>> /\ ~ expected
           /\ link' = [link EXCEPT ![p] = "closing"]
           /\ UNCHANGED <<peer, calls, fetching>>
        \/ /\ c.item_ids_requested
           /\ reply = <<>> \/ expected
           /\ upToDate
           /\ peer' = [peer EXCEPT ![p].item_ids_requested = FALSE, ![p].asked = <<>>,
                                   ![p].we_need = FALSE]
           /\ UNCHANGED <<link, calls, fetching>>
        \/ /\ c.item_ids_requested
           /\ reply = <<>> \/ expected
           /\ ~ upToDate
           /\ peer' = [peer EXCEPT ![p] = merged]
           /\ calls' = IF enough THEN calls ELSE Append(calls, fetch_next_batch(p, merged, "reader", <<>>))
           /\ fetching' = (fetching \/ enough)
           /\ UNCHANGED link
(* process_block_message: a block asked for in normal operation is pushed at
   once, unless it came through sync meanwhile; a block asked for during sync
   joins the backlog. *)
process_block_message(p, b) ==
    LET c == [peer[p] EXCEPT !.sync_requested = @ \ {b}]
        more == c.number_of_unfetched > 0 /\ Len(c.ids_of_items_to_get) < MinPrefetch
    IN  \/ /\ b \in peer[p].requested
           /\ \/ /\ b \in accepted
                 /\ peer' = [q \in Peers |->
                      [peer[q] EXCEPT !.requested = IF q = p THEN @ \ {b} ELSE @,
                                      !.last_seen = IF q \in Active /\ b \in peer[q].inventory
                                                    THEN b ELSE @]]
                 /\ announced' = announced \cup {b}
                 /\ fetching_items' = (fetching_items \/ idle(peer'[p]))
                 /\ UNCHANGED calls
              \/ /\ b \notin accepted
                 /\ peer' = [peer EXCEPT ![p].requested = @ \ {b}]
                 /\ calls' = Append(calls, BlockCall("normal", p, b))
                 /\ UNCHANGED <<announced, fetching_items>>
           /\ UNCHANGED <<active_sync_requests, new_received, backlog, fetching>>
        \/ /\ b \notin peer[p].requested /\ b \in peer[p].sync_requested
           /\ peer' = [peer EXCEPT ![p] = c]
           /\ active_sync_requests' = active_sync_requests \ {b}
           /\ new_received' = Append(new_received, b)
           /\ backlog' = (backlog \/ ~ BacklogRunning(calls))
           /\ calls' = IF idle(c) /\ more THEN Append(calls, fetch_next_batch(p, c, "reader", <<>>)) ELSE calls
           /\ fetching' = (fetching \/ (idle(c) /\ ~ more))
           /\ UNCHANGED <<announced, fetching_items>>

(* The peer takes its oldest request, answers it from its chain, and this node
   handles the answer. *)
OnReply(p) ==
    /\ Reading(p) /\ inbox[p] # <<>>
    /\ inbox' = [inbox EXCEPT ![p] = Tail(@)]
    /\ LET request == Head(inbox[p])
           reply == get_block_ids(remote[p], request.synopsis)
           remaining == IF reply = <<>> THEN 0 ELSE Len(remote[p]) - Num(Last(reply))
       IN  \/ /\ request.block = None
              /\ behind' = [behind EXCEPT ![p] = NeedsItems(reply, request.synopsis)]
              /\ on_blockchain_item_ids_inventory(p, reply, remaining)
              /\ UNCHANGED <<active_sync_requests, new_received, backlog, announced, fetching_items>>
           \/ /\ request.block # None
              /\ process_block_message(p, request.block)
              /\ UNCHANGED <<link, behind>>
    /\ UNCHANGED <<chain, forks, received, accepted, suspended, to_fetch, remote, growth, losses>>

-----------------------------------------------------------------------------
(* The delegate answers its oldest call. *)

(* fetch_next_batch_of_item_ids_from_peer, from the synopsis on. *)
SynopsisReady(x) ==
    LET synopsis == create_blockchain_synopsis_for_peer(x.block, x.ids)
        old == ForkedTooLongAgo(x.block)
        sent == IF x.peer = None \/ old THEN peer
                ELSE [peer EXCEPT ![x.peer].item_ids_requested = TRUE, ![x.peer].asked = synopsis]
    IN  /\ x.kind = "synopsis"
        /\ link' = IF old /\ x.peer # None THEN [link EXCEPT ![x.peer] = "closing"] ELSE link
        /\ inbox' = IF old \/ x.peer = None THEN inbox
                    ELSE [inbox EXCEPT ![x.peer] = Append(@, [block |-> None, synopsis |-> synopsis])]
        /\ FollowUp(x.task, x.rest, sent, Tail(calls), received)
        /\ UNCHANGED <<chain, forks, active_sync_requests, new_received, received, accepted,
                       to_fetch, announced, fetching_items>>

(* send_sync_block_to_node_delegate, from the answer on. *)
send_sync_block_to_node_delegate(x) ==
    LET b == x.block
        after == [q \in Peers |->
            [peer[q] EXCEPT !.being_processed = @ \ {b},
                            !.last_seen = IF b \in peer[q].being_processed THEN b ELSE @]]
        empty == {q \in Active : /\ b \in peer[q].being_processed
                                 /\ after[q].ids_of_items_to_get = <<>>
                                 /\ after[q].number_of_unfetched = 0
                                 /\ after[q].being_processed = {}}
        told == {q \in Active : /\ peer[q].ids_of_items_to_get = <<>>
                                /\ peer[q].being_processed = {}
                                /\ ~ peer[q].peer_needs /\ ~ peer[q].we_need}
        popped == [q \in Peers |-> IF q \in Active THEN after[q] ELSE peer[q]]
    IN  /\ x.kind = "sync"
        /\ Push(b)
        /\ \/ /\ PushResult(b) = "ok"
              /\ accepted' = accepted \cup {b}
              /\ FollowUp("block", PeersToAsk(empty, FALSE) \o PeersToAsk(told, TRUE), popped,
                          Tail(calls), received)
              /\ UNCHANGED link
           \/ /\ PushResult(b) # "ok"
              /\ link' = [q \in Peers |-> IF q \in Active /\ b \in peer[q].being_processed
                                          THEN "closing" ELSE link[q]]
              /\ FollowUp("block", <<>>, peer, Tail(calls), received)
              /\ UNCHANGED accepted
        /\ UNCHANGED <<active_sync_requests, new_received, received, to_fetch, announced, fetching_items, inbox>>

(* process_block_during_normal_operation, from the answer on. *)
process_block_during_normal_operation(x) ==
    LET b == x.block
        p == x.peer
    IN  /\ x.kind = "normal"
        /\ Push(b)
        /\ \/ /\ PushResult(b) = "ok"
              /\ accepted' = accepted \cup {b}
              /\ announced' = announced \cup {b}
              /\ peer' = [q \in Peers |->
                    IF q \in Active /\ b \in peer[q].inventory
                    THEN [peer[q] EXCEPT !.last_seen = b] ELSE peer[q]]
              /\ calls' = Tail(calls)
              /\ UNCHANGED link
           \/ /\ PushResult(b) = "unlinkable" /\ p \in Peers
              /\ peer' = [peer EXCEPT ![p] = start_synchronizing(@)]
              /\ calls' = Append(Tail(calls), fetch_next_batch(p, start_synchronizing(peer[p]), "reader", <<>>))
              /\ UNCHANGED <<accepted, announced, link>>
           \/ /\ PushResult(b) \in {"old", "invalid"} \/ (p \notin Peers /\ PushResult(b) # "ok")
              /\ link' = [q \in Peers |->
                    IF \/ q = p
                       \/ /\ q \in Active /\ PushResult(b) # "unlinkable"
                          /\ peer[q].ids_of_items_to_get # <<>>
                          /\ Head(peer[q].ids_of_items_to_get) = b
                    THEN "closing" ELSE link[q]]
              /\ calls' = Tail(calls)
              /\ UNCHANGED <<accepted, announced, peer>>
        /\ fetching_items' = \/ fetching_items
                             \/ p \in Peers /\ PushResult(b) # "unlinkable" /\ idle(peer'[p])
        /\ UNCHANGED <<active_sync_requests, new_received, received, suspended, to_fetch,
                       backlog, fetching, inbox>>

DelegateAnswers ==
    /\ calls # <<>>
    /\ \/ SynopsisReady(Head(calls))
       \/ send_sync_block_to_node_delegate(Head(calls))
       \/ process_block_during_normal_operation(Head(calls))
    /\ UNCHANGED <<remote, behind, growth, losses>>

-----------------------------------------------------------------------------
(* The tasks of the p2p thread. *)

(* One run of the loop in process_backlog_of_sync_blocks over s, the received
   blocks, the peers and the calls: the first block that some peer's list
   starts with goes to the delegate, until too many are under way. *)
RECURSIVE HandOver(_)
HandOver(s) ==
    LET Starts(b) == {q \in Active : s.peer[q].ids_of_items_to_get # <<>>
                                     /\ Head(s.peer[q].ids_of_items_to_get) = b}
        firsts == {i \in DOMAIN s.received : Starts(s.received[i]) # {}}
        i == Min(firsts)
        b == s.received[i]
        popped == [q \in Peers |->
            IF q \notin Starts(b) THEN s.peer[q]
            ELSE [s.peer[q] EXCEPT !.ids_of_items_to_get = Tail(@),
                                   !.being_processed = @ \cup {b}]]
        done == [q \in Peers |->
            IF q \notin Active THEN popped[q]
            ELSE [popped[q] EXCEPT !.being_processed = @ \ {b}]]
        next == [s EXCEPT !.peer = popped,
                          !.received = RemoveAt(@, i),
                          !.calls = Append(@, BlockCall("sync", None, b))]
        empty == {q \in Active : /\ b \in popped[q].being_processed
                                 /\ done[q].ids_of_items_to_get = <<>>
                                 /\ done[q].number_of_unfetched = 0
                                 /\ done[q].being_processed = {}}
    IN  IF firsts = {} THEN s
        ELSE IF b \in accepted
        THEN [s EXCEPT !.peer = done, !.rest = PeersToAsk(empty, FALSE)]
        ELSE IF InProgress(next.calls) >= MaxInProgress THEN next ELSE HandOver(next)

process_backlog_of_sync_blocks ==
    /\ backlog
    /\ \/ /\ InProgress(calls) >= MaxInProgress
          /\ backlog' = FALSE
          /\ UNCHANGED <<peer, calls, new_received, received, suspended, fetching>>
       \/ /\ InProgress(calls) < MaxInProgress
          /\ LET s == HandOver([peer |-> peer, calls |-> calls, rest |-> <<>>,
                                received |-> new_received \o received])
             IN  /\ FollowUp("backlog", s.rest, s.peer, s.calls, s.received)
                 /\ received' = s.received
          /\ new_received' = <<>>
    /\ UNCHANGED <<chain, forks, link, active_sync_requests, accepted, to_fetch, announced,
                   fetching_items, remote, behind, inbox, growth, losses>>

(* fetch_sync_items_loop: every idle peer this node syncs with is asked for
   the next blocks of its list that nobody has been asked for. *)
Wanting == {p \in Active : peer[p].we_need /\ idle(peer[p])}
Orders == {s \in [1 .. Cardinality(Wanting) -> Wanting] : Range(s) = Wanting}

(* Mutant: what the same run asks of other peers is not taken into account. *)
RequestsUntracked(order, taken) ==
    [p \in Peers |->
        LET open == SelectSeq(peer[p].ids_of_items_to_get, LAMBDA b : b \notin taken)
        IN  IF p \in Range(order) THEN SubSeq(open, 1, Min({Len(open), MaxPerPeer})) ELSE <<>>]

RECURSIVE Requests(_, _)
Requests(order, taken) ==
    IF order = <<>> THEN [p \in Peers |-> <<>>]
    ELSE LET p == Head(order)
             open == SelectSeq(peer[p].ids_of_items_to_get, LAMBDA b : b \notin taken)
             mine == SubSeq(open, 1, Min({Len(open), MaxPerPeer}))
         IN  [Requests(Tail(order), taken \cup Range(mine)) EXCEPT ![p] = mine]

fetch_sync_items_loop ==
    /\ fetching
    /\ fetching' = FALSE
    /\ \/ /\ suspended
          /\ UNCHANGED <<active_sync_requests, peer, inbox>>
       \/ /\ ~ suspended
          /\ \E order \in Orders :
                LET asked == Requests(order, active_sync_requests
                                         \cup Range(new_received) \cup Range(received))
                IN  /\ active_sync_requests' = active_sync_requests
                                                \cup UNION {Range(asked[p]) : p \in Peers}
                    /\ peer' = [p \in Peers |->
                          [peer[p] EXCEPT !.sync_requested = @ \cup Range(asked[p])]]
                    /\ inbox' = [p \in Peers |-> inbox[p] \o
                          [i \in DOMAIN asked[p] |-> [block |-> asked[p][i], synopsis |-> <<>>]]]
    /\ UNCHANGED <<chain, forks, link, new_received, received, accepted, suspended, to_fetch,
                   announced, backlog, fetching_items, calls, remote, behind, growth, losses>>

(* fetch_items_loop: every idle peer is asked for at most one of the blocks it
   has offered in normal operation, and no block of two peers. *)
fetch_items_loop ==
    LET free == {p \in Active : idle(peer[p])}
    IN  /\ fetching_items
        /\ fetching_items' = FALSE
        /\ \E asked \in [free -> to_fetch \cup {None}] :
              /\ \A p \in free : asked[p] \in peer[p].inventory \cup {None}
              /\ \A p, q \in free : p # q => asked[p] = None \/ asked[p] # asked[q]
              /\ \A p \in free : asked[p] = None => to_fetch \cap peer[p].inventory \subseteq Range(asked)
              /\ LET chosen == {p \in free : asked[p] # None}
                 IN  /\ to_fetch' = to_fetch \ Range(asked)
                     /\ peer' = [p \in Peers |-> IF p \notin chosen THEN peer[p]
                            ELSE [peer[p] EXCEPT !.requested = @ \cup {asked[p]}]]
                     /\ inbox' = [p \in Peers |-> IF p \notin chosen THEN inbox[p]
                            ELSE Append(inbox[p], [block |-> asked[p], synopsis |-> <<>>])]
        /\ UNCHANGED <<chain, forks, link, active_sync_requests, new_received, received, accepted,
                       suspended, announced, backlog, fetching, calls, remote, behind, growth, losses>>

(* on_item_ids_inventory_message, for one block of normal operation. *)
on_item_ids_inventory(p, b) ==
    /\ peer' = IF b \in announced THEN peer
               ELSE [peer EXCEPT ![p].inventory = @ \cup {b}]
    /\ to_fetch' = IF b \in announced \/ \E q \in Active : b \in peer[q].requested
                   THEN to_fetch ELSE to_fetch \cup {b}
    /\ fetching_items' = (fetching_items \/ to_fetch' # to_fetch)
    /\ UNCHANGED calls

(* A peer's chain grows, or it switches to a longer branch.  A peer that takes
   this node to be in sync advertises a head it got in normal operation; after
   one it got by sync, it asks this node again. *)
PeerGrows(p) ==
    \E c \in Chains :
        LET longer == SubSeq(c, 1, Len(remote[p]) + 1)
        IN  /\ growth + losses < MaxEvents /\ Len(c) > Len(remote[p])
            /\ growth' = growth + 1
            /\ remote' = [remote EXCEPT ![p] = longer]
            /\ \/ /\ link[p] # "active" \/ (behind[p] /\ Reading(p))
                  /\ UNCHANGED <<peer, to_fetch, fetching_items, calls>>
               \/ /\ link[p] = "active" /\ Reading(p) /\ ~ behind[p]
                  /\ on_item_ids_inventory(p, Last(longer))
               \/ /\ link[p] = "active" /\ Reading(p)
                  /\ on_fetch_blockchain_item_ids(p, longer)
                  /\ UNCHANGED <<to_fetch, fetching_items>>
            /\ UNCHANGED <<chain, forks, link, active_sync_requests, new_received, received,
                           accepted, suspended, announced, backlog, fetching, behind,
                           inbox, losses>>

Init ==
    /\ chain = Start /\ forks = {}
    /\ link = [p \in Peers |-> "closed"]
    /\ peer = [p \in Peers |-> FreshPeer]
    /\ active_sync_requests = {} /\ new_received = <<>> /\ received = <<>>
    /\ accepted = (IF Start = <<>> THEN {} ELSE {Last(Start)})
    /\ suspended = FALSE /\ to_fetch = {} /\ announced = {}
    /\ calls = <<>> /\ backlog = FALSE /\ fetching = FALSE /\ fetching_items = FALSE
    /\ remote = RemoteStart
    /\ behind = [p \in Peers |-> TRUE]
    /\ inbox = [p \in Peers |-> <<>>]
    /\ growth = 0 /\ losses = 0

Next ==
    \/ \E p \in Peers :
        \/ new_peer_just_added(p) \/ ClosingPeerGone(p) \/ Lose(p)
        \/ OnReply(p) \/ PeerGrows(p)
    \/ DelegateAnswers
    \/ process_backlog_of_sync_blocks
    \/ fetch_sync_items_loop
    \/ fetch_items_loop

(* The delegate's thread and the tasks of the p2p thread are scheduled until
   they are done; connections are retried, and a connection that stays up
   delivers what was sent over it.  The first three conjuncts are weak fairness
   of Connection(p), DelegateAnswers, process_backlog_of_sync_blocks and
   fetch_items_loop, their enabling conditions written out. *)
Connection(p) ==
    new_peer_just_added(p) \/ ClosingPeerGone(p) \/ OnReply(p)
ConnectionEnabled(p) ==
    \/ link[p] \in {"closed", "closing"}
    \/ Reading(p) /\ inbox[p] # <<>>
Fairness ==
    /\ \A p \in Peers : []<> ~ ConnectionEnabled(p) \/ []<><<Connection(p)>>_vars
    /\ []<>(calls = <<>>) \/ []<><<DelegateAnswers>>_vars
    /\ []<> ~ backlog /\ []<> ~ fetching_items
    /\ WF_vars(fetch_sync_items_loop)

Spec == Init /\ [][Next]_vars
FairSpec == Spec /\ Fairness
-----------------------------------------------------------------------------
(* A sync block is asked of one peer at a time, and nothing stays recorded as
   requested once the peer that was asked has answered or is gone: a leftover
   entry of _active_sync_requests would keep the block from being asked again. *)
RequestedOnce ==
    /\ active_sync_requests = UNION {peer[p].sync_requested : p \in Peers}
    /\ \A p, q \in Peers : p # q => peer[p].sync_requested \cap peer[q].sync_requested = {}

(* Sync blocks reach the delegate in order: the parent has been pushed, goes
   before in the queue, or was refused. *)
HandedOverInOrder ==
    \A i \in DOMAIN calls : calls[i].kind = "sync" =>
        \/ Parent(calls[i].block) \in Known \cup {None}
        \/ \E j \in 1 .. i - 1 : calls[j].block = Parent(calls[i].block)
        \/ \E x \in Range(Branch(calls[i].block)) : x \in Bad

(* A peer is disconnected only for a block this node's chain refuses, for a
   branch that left this node's chain before its undo history, or when its
   reply crosses a second request for ids (start_synchronizing_with_peer does
   not wait for the first), against whose synopsis the reply is then held. *)
DisconnectJustified ==
    [][\A p \in Peers : link[p] = "active" /\ link'[p] = "closing" =>
        \/ Range(remote[p]) \cap Bad # {}
        \/ \E i \in DOMAIN inbox'[p] : inbox'[p][i].block = None
        \/ \E b \in Range(remote[p]) : Num(b) <= Len(chain) - Window /\ b \notin Range(chain)]_vars

(* _received_sync_items holds blocks that wait for earlier ones: a block that
   has come to the front of a peer's list does not stay there, because
   process_backlog_of_sync_blocks starts again from the first block whenever
   it has taken one. *)
BacklogDrained ==
    []<>(\A p \in Active : LET ids == peer[p].ids_of_items_to_get IN
            ids # <<>> => Head(ids) \notin Range(received))

(* The state terminate_inactive_connections_loop takes for a stalled sync:
   blocks are needed of a peer, and neither is it asked nor are ids of it known. *)
LooksStalled(p) ==
    /\ p \in Active /\ peer[p].we_need /\ Reading(p)
    /\ ~ peer[p].item_ids_requested
    /\ peer[p].ids_of_items_to_get = <<>>

(* Sync that looks stalled to terminate_inactive_connections_loop goes on by
   itself: the task that pushes the last blocks asks the peer again. *)
StallEnds == \A p \in Peers : []<> ~ LooksStalled(p)
=============================================================================
