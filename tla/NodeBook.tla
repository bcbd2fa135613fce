------------------------------ MODULE NodeBook ------------------------------
(***************************************************************************)
(* The desktop client's list of nodes: hand-made entries, subscriptions    *)
(* that claim addresses, and the dialogs and background threads that change *)
(* both (groups.rs, subscription_actions.rs, config.rs, share_io.rs).      *)
(* The UI thread makes every change; a fetch or a decoding in the          *)
(* background only hands its result to a later frame.                      *)
(***************************************************************************)
EXTENDS Naturals, Sequences, FiniteSets, SequencesExt

CONSTANTS Addrs,        \* node addresses, as they are spelled
                Names,        \* names of subscriptions and groups
          None,         \* no address, no name
          MaxQueue,     \* bound: updates waiting
          MaxUpdates    \* bound: updates asked for

ASSUME BookAssumption == /\ None \notin Addrs \cup Names
                         /\ MaxQueue \in Nat /\ MaxUpdates \in Nat

VARIABLES
    book,       \* addrs: node_addrs; subs: subscriptions; entries: addresses, as a list has them, with a name or certificate
    dialog,     \* node: address the edit dialog is open for; sub: index of the edited subscription
    queue,      \* pending_sub_updates
    fetch,      \* the name whose update runs (sub_update_receiver), or None
    asked,      \* updates asked for
    hand,       \* history: addresses the user listed while no subscription claimed them
    ghosts,     \* history: claims left behind by the deletion of a node
    late        \* history: entries saved for a node that was gone

bookVars == <<book, dialog, queue, fetch, asked, hand, ghosts, late>>

SubNames(subs) == {subs[i].name : i \in DOMAIN subs}
Named(subs, n) == CHOOSE i \in DOMAIN subs : subs[i].name = n

\* subscription_owned_addrs.
Owned(subs) == UNION {subs[i].nodes : i \in DOMAIN subs}
OwnedByOthers(subs, i) == UNION {subs[j].nodes : j \in DOMAIN subs \ {i}}

NewSub(n) == [name |-> n, nodes |-> {}]

BookInit ==
    /\ book = [addrs |-> {}, subs |-> <<>>, entries |-> {}]
    /\ dialog = [node |-> None, sub |-> 0]
    /\ queue = <<>> /\ fetch = None
    /\ asked = 0
    /\ hand = {} /\ ghosts = {} /\ late = {}

-----------------------------------------------------------------------------
(* Pure operations on the book. *)

\* Mutant: a claim is dropped from the list although another subscription or the user holds it.
MergedForcing(b, i, new) ==
    LET gone == b.subs[i].nodes \ new
        list == (b.addrs \ gone) \cup new
    IN [addrs |-> list, subs |-> [b.subs EXCEPT ![i].nodes = new], entries |-> b.entries \ gone]

\* apply_subscription_node_update: the subscription at i now lists the addresses in new.
Merged(b, i, new) ==
    LET manual == b.addrs \ Owned(b.subs)
        others == OwnedByOthers(b.subs, i)
        gone == b.subs[i].nodes \ (new \cup manual \cup others)
        list == (b.addrs \ gone) \cup (new \ others)
        claimed == (new \cap list) \ (manual \cup others)
    IN [addrs |-> list,
        subs |-> [b.subs EXCEPT ![i].nodes = claimed],
        entries |-> b.entries \ gone]

\* import_share_links_as_group: a new group, taken back when it claims nothing.
Grouped(b, n, new) ==
    LET subs == Append(b.subs, NewSub(n))
        m == Merged([b EXCEPT !.subs = subs], Len(subs), new)
    IN IF m.subs[Len(subs)].nodes = {} THEN [m EXCEPT !.subs = Front(@)] ELSE m

\* delete_subscription: its nodes go unless another subscription claims them.
Dropped(b, i) ==
    LET rest == RemoveAt(b.subs, i)
        gone == b.subs[i].nodes \ Owned(rest)
    IN [addrs |-> b.addrs \ gone, subs |-> rest, entries |-> b.entries \ gone]

\* execute_delete_node: the list and the entry; the subscriptions' claims are not looked at.
Deleted(b, a) == [b EXCEPT !.addrs = @ \ {a}, !.entries = @ \ {a}]

Moved(S, a, c) == IF a \in S THEN (S \ {a}) \cup {c} ELSE S

\* rename_node: list, claims and entries.
Renamed(b, a, c) ==
    [addrs |-> Moved(b.addrs, a, c),
     subs |-> [i \in DOMAIN b.subs |-> [b.subs[i] EXCEPT !.nodes = Moved(@, a, c)]],
     entries |-> Moved(b.entries, a, c)]

\* set_node_name and set_node_cert_path: an empty value removes the entry.
WithEntry(b, a, filled) ==
    [b EXCEPT !.entries = IF filled THEN @ \cup {a} ELSE @ \ {a}]

\* save_subscription_node_as_manual: the first subscription that claims it gives it up.
Released(b, a) ==
    LET i == CHOOSE j \in DOMAIN b.subs :
               a \in b.subs[j].nodes /\ \A k \in 1..(j - 1) : a \notin b.subs[k].nodes
    IN [b EXCEPT !.subs[i].nodes = @ \ {a}]

-----------------------------------------------------------------------------
(* The operations. *)

\* The histories after the book became b: what the user listed by hand, and claims left behind.
Tracks(b, newHand, newGhosts, newLate) ==
    /\ book' = b
    /\ hand' = newHand
    /\ ghosts' = newGhosts \cap Owned(b.subs)
    /\ late' = newLate \cap b.entries

OtherVars == UNCHANGED <<dialog, queue, fetch, asked>>

\* add_subscription; a name that exists is refused.
AddSub ==
    /\ \E n \in Names \ SubNames(book.subs) :
         Tracks([book EXCEPT !.subs = Append(@, NewSub(n))], hand, ghosts, late)
    /\ OtherVars

\* The confirmed deletion.  An open edit dialog keeps its index.
DeleteSub ==
    /\ \E i \in DOMAIN book.subs : Tracks(Dropped(book, i), hand, ghosts, late)
    /\ OtherVars

\* import_paste_submit.
ImportGroup ==
    /\ \E n \in Names \ SubNames(book.subs), new \in SUBSET Addrs \ {{}} :
         Tracks(Grouped(book, n, new), hand, ghosts, late)
    /\ OtherVars

\* manual_add_submit: a group of one node, whose address goes through a link; then, if the group was
\* made, its certificate path, under the address as it was typed.  Typed otherwise than the link has
\* it (port 0443) that is an address no list holds and no connection looks up, and is left out here.
ManualAdd ==
    /\ \E n \in Names \ SubNames(book.subs), a \in Addrs, cert, asLinked \in BOOLEAN :
         LET b == Grouped(book, n, {a}) IN
         Tracks(IF asLinked /\ n \in SubNames(b.subs) THEN WithEntry(b, a, cert) ELSE b, hand, ghosts, late)
    /\ OtherVars

\* import_share_links and apply_imported_link: listed, claimed by nobody.
ListedByHand(new) ==
    LET b == [book EXCEPT !.addrs = @ \cup new] IN
    Tracks(b, hand \cup (new \ (book.addrs \cup Owned(book.subs))), ghosts, late)

ImportByHand == (\E new \in SUBSET Addrs \ {{}} : ListedByHand(new)) /\ OtherVars

\* import_from_qr_image and poll_qr_import_result: the picture is decoded in the background and reads
\* nothing of the book; its link is listed in the frame that polls it.
ImportQr == (\E a \in Addrs : ListedByHand({a})) /\ OtherVars

\* The card's "save as manual".
SaveAsManual ==
    /\ \E a \in Owned(book.subs) :
         LET b == Released(book, a) IN
         Tracks(b, hand \cup (({a} \cap book.addrs) \ Owned(b.subs)), ghosts, late)
    /\ OtherVars

\* execute_delete_node, confirmed.
DeleteNode ==
    /\ \E a \in book.addrs :
         Tracks(Deleted(book, a), hand \ {a}, ghosts \cup ({a} \cap Owned(book.subs)), late)
    /\ OtherVars

\* open_node_edit is offered for nodes no subscription claims; the dialog is not modal.
OpenEdit ==
    /\ dialog.node = None
    /\ \E a \in book.addrs \ Owned(book.subs) : dialog' = [dialog EXCEPT !.node = a]
    /\ UNCHANGED <<book, queue, fetch, asked, hand, ghosts, late>>

\* save_node_edit: refused when the new address, as typed, is listed; the old one is not looked for.
SaveEdit ==
    /\ dialog.node # None
    /\ \E c \in Addrs, filled \in BOOLEAN :
         LET a == dialog.node
             b == WithEntry(IF c = a THEN book ELSE Renamed(book, a, c), c, filled)
         IN
         /\ c = a \/ c \notin book.addrs
         /\ Tracks(b,
                   IF c = a \/ a \notin hand THEN hand
                   ELSE (hand \ {a}) \cup ({c} \ Owned(b.subs)),
                   IF c = a THEN ghosts ELSE Moved(ghosts, a, c),
                   IF a \in book.addrs THEN Moved(late, a, c) ELSE Moved(late, a, c) \cup {c})
    /\ dialog' = [dialog EXCEPT !.node = None]
    /\ UNCHANGED <<queue, fetch, asked>>

\* The subscription's edit dialog keeps an index.
OpenSubEdit ==
    /\ dialog.sub = 0
    /\ \E i \in DOMAIN book.subs : dialog' = [dialog EXCEPT !.sub = i]
    /\ UNCHANGED <<book, queue, fetch, asked, hand, ghosts, late>>

\* The subscriptions' page is drawn: a dialog whose index is past the end closes.
StaleEditCloses ==
    /\ dialog.sub \notin DOMAIN book.subs \cup {0}
    /\ dialog' = [dialog EXCEPT !.sub = 0]
    /\ UNCHANGED <<book, queue, fetch, asked, hand, ghosts, late>>

\* Saved unless the name is another subscription's; the source is replaced with it.
SaveSubEdit ==
    /\ dialog.sub \in DOMAIN book.subs
    /\ \E n \in Names :
         /\ \A j \in DOMAIN book.subs \ {dialog.sub} : book.subs[j].name # n
         /\ Tracks([book EXCEPT !.subs[dialog.sub].name = n], hand, ghosts, late)
    /\ dialog' = [dialog EXCEPT !.sub = 0]
    /\ UNCHANGED <<queue, fetch, asked>>

-----------------------------------------------------------------------------
(* Updates: one thread at a time, the others wait. *)

\* start_next_subscription_update: deleted subscriptions are skipped.
StartNext(q, f, subs) ==
    IF f # None THEN queue' = q /\ fetch' = f
    ELSE LET k == SelectInSeq(q, LAMBDA n : n \in SubNames(subs)) IN
         IF k = 0 THEN queue' = <<>> /\ fetch' = None
                  ELSE queue' = SubSeq(q, k + 1, Len(q)) /\ fetch' = q[k]

\* queue_subscription_update, and update_all_subscriptions.
AskUpdate ==
    /\ asked < MaxUpdates
    /\ \E names \in {<<n>> : n \in SubNames(book.subs)}
                    \cup {[i \in DOMAIN book.subs |-> book.subs[i].name]} :
         /\ names # <<>> /\ Len(queue \o names) <= MaxQueue
         /\ StartNext(queue \o names, fetch, book.subs)
    /\ asked' = asked + 1
    /\ UNCHANGED <<book, dialog, hand, ghosts, late>>

\* Mutant: a thread that is gone leaves its receiver in place.
PollUpdatesStuck ==
    /\ fetch # None
    /\ \E new \in SUBSET Addrs :
         /\ Tracks(IF fetch \in SubNames(book.subs)
                   THEN Merged(book, Named(book.subs, fetch), new) ELSE book, hand, ghosts, late)
         /\ StartNext(queue, IF new = {} THEN fetch ELSE None, book'.subs)
    /\ UNCHANGED <<dialog, asked>>

\* poll_subscription_updates: the links found, an error or a lost thread; then the next one.  A
\* result is matched by the name it was asked for under.
PollUpdates ==
    /\ fetch # None
    /\ StartNext(queue, None, book.subs)        \* no name changes here
    /\ \/ \E new \in SUBSET Addrs :
            Tracks(IF fetch \in SubNames(book.subs)
                   THEN Merged(book, Named(book.subs, fetch), new) ELSE book, hand, ghosts, late)
       \/ UNCHANGED <<book, hand, ghosts, late>>
    /\ UNCHANGED <<dialog, asked>>

-----------------------------------------------------------------------------
BookNext ==
    \/ AddSub \/ DeleteSub \/ ImportGroup \/ ManualAdd \/ ImportByHand
    \/ ImportQr \/ SaveAsManual \/ DeleteNode \/ OpenEdit \/ SaveEdit
    \/ OpenSubEdit \/ StaleEditCloses \/ SaveSubEdit \/ AskUpdate \/ PollUpdates
=============================================================================
