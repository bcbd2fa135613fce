------------------------------ MODULE RelayLinks ------------------------------
(* The three connections a relayed TCP stream runs over, application to       *)
(* client ("local"), client to node ("tls") and node to target ("far"), each  *)
(* with two directions, and the application and the target at their ends.     *)
(* Of the data only the number of chunks in flight is kept: a connection      *)
(* neither reorders nor duplicates.                                           *)
EXTENDS Naturals

CONSTANT Cap    \* chunks a direction of a connection holds before a write blocks

ASSUME CapAssumption == Cap \in Nat \ {0}

VARIABLES
    pipe,       \* pipe[link][direction]: chunks in flight, and whether it is open,
                \* ended by its writer ("fin"), lost ("cut") or closed by its reader
    cut,        \* history: a connection was lost or given up by a timeout or an end
    owed        \* history: chunks sent in a direction and not received (until cut)

links == <<pipe, owed, cut>>

Dirs  == {"up", "down"}
Links == {"local", "tls", "far"}

Pipes == [n : 0..Cap, end : {"open", "fin", "cut", "gone"}]
Fresh == [n |-> 0, end |-> "open"]
Gone  == [n |-> 0, end |-> "gone"]

Other(d)      == IF d = "up" THEN "down" ELSE "up"
SourceLink(d) == IF d = "up" THEN "local" ELSE "far"
SinkLink(d)   == IF d = "up" THEN "far" ELSE "local"

Readable(link, d)   == pipe[link][d].n > 0
AtEof(link, d)      == pipe[link][d].n = 0 /\ pipe[link][d].end = "fin"
AtError(link, d)    == pipe[link][d].n = 0 /\ pipe[link][d].end = "cut"
(* A write into a lost connection fails, or one the reader has closed.        *)
WriteFails(link, d) == pipe[link][d].end \in {"cut", "gone"}
Room(link, d)       == pipe[link][d].n < Cap /\ pipe[link][d].end = "open"
Blocked(link, d)    == pipe[link][d].n = Cap /\ pipe[link][d].end = "open"

Took(link, d) == [pipe EXCEPT ![link][d].n = @ - 1]
Gave(link, d) == [pipe EXCEPT ![link][d].n = @ + 1]

(* The writer ends its direction in good order (FIN, on TLS after a           *)
(* close_notify).                                                             *)
Shut(pp, link, d) == [pp EXCEPT ![link][d].end = IF @ = "open" THEN "fin" ELSE @]

(* A process drops its socket.  TCP then sends a FIN, or a reset when data    *)
(* was left unread; without close_notify the end of a TLS stream is an error. *)
Dropped(pp, link, out) ==
    LET unread == pp[link][Other(out)].n > 0
        end    == IF link = "tls" \/ unread THEN "cut" ELSE "fin"
    IN  [pp EXCEPT ![link] =
            [d \in Dirs |-> IF d # out THEN Gone
                            ELSE IF pp[link][d].end # "open" THEN pp[link][d]
                            ELSE [n |-> pp[link][d].n, end |-> end]]]

Settled == [d \in Dirs |-> 0]

LinksInit ==
    /\ pipe = [link \in Links |-> [d \in Dirs |-> Fresh]]
    /\ owed = Settled
    /\ cut = FALSE

(* From here on nothing is owed any more.                                     *)
Cuts == cut' = TRUE /\ owed' = Settled

(* The sender of a direction: the application ("up") or the target ("down").  *)
EndSends(d) ==
    /\ Room(SourceLink(d), d)
    /\ pipe' = Gave(SourceLink(d), d)
    /\ owed' = IF cut THEN owed ELSE [owed EXCEPT ![d] = @ + 1]
    /\ UNCHANGED cut

EndShuts(d) ==
    /\ pipe[SourceLink(d)][d].end = "open"
    /\ pipe' = Shut(pipe, SourceLink(d), d)
    /\ UNCHANGED <<owed, cut>>

(* The receiver of a direction: the target ("up") or the application.         *)
EndReads(d) ==
    /\ Readable(SinkLink(d), d)
    /\ pipe' = Took(SinkLink(d), d)
    /\ owed' = IF cut THEN owed ELSE [owed EXCEPT ![d] = @ - 1]
    /\ UNCHANGED cut

(* The sender of a direction closes its socket for both.                      *)
EndCloses(d) ==
    /\ pipe[SourceLink(d)][Other(d)] # Gone
    /\ pipe' = Dropped(pipe, SourceLink(d), d)
    /\ Cuts

(* A connection is lost, with what is in flight.  The local one is a loopback *)
(* connection: it ends only with the application or the client.               *)
LinkBreaks(link) ==
    /\ \E d \in Dirs : pipe[link][d].end \in {"open", "fin"}
    /\ pipe' = [pipe EXCEPT ![link] =
                   [d \in Dirs |-> IF pipe[link][d] = Gone THEN Gone ELSE [n |-> 0, end |-> "cut"]]]
    /\ Cuts

LinksNext ==
    \/ \E d \in Dirs : EndSends(d) \/ EndShuts(d) \/ EndReads(d) \/ EndCloses(d)
    \/ \E link \in Links \ {"local"} : LinkBreaks(link)
=============================================================================
