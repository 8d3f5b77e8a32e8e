------------------------------ MODULE LogStream ------------------------------
(***************************************************************************)
(* How the lines of a deployment reach the browsers that watch it.         *)
(*                                                                         *)
(* socket-server.js appends every line to the cluster's log file and emits *)
(* it to the sockets in the cluster's room.  Logs.tsx opens a socket when  *)
(* it is mounted, asks once for the log, and shows what arrives.  The      *)
(* socket of a browser is a pair of FIFO channels; when the connection is  *)
(* lost, so is what was in them.  The client then reconnects by itself,    *)
(* and the server sees a new socket, which is in no room.                  *)
(*                                                                         *)
(* One cluster is modelled: a room and a file exist per cluster.  Messages *)
(* that the server sends to one socket only ("Re-attached to ...", "Logs   *)
(* cleared ...") are not lines of the log and are left out.                *)
(***************************************************************************)
EXTENDS Integers, Sequences, SequencesExt

CONSTANTS Viewers,    \* browsers that may open the cluster's log
          MaxLines,   \* bound: lines the deployments write
          MaxPackets  \* bound: requests a browser has under way

ASSUME StreamAssumption == MaxLines \in Nat /\ MaxPackets \in Nat \ {0}

Lines    == 1..MaxLines
Requests == {"request-logs", "run-script", "clear-logs"}

VARIABLES
    file,      \* the log file, in the order of its lines
    count,     \* lines written so far; they are numbered from 1
    link,      \* per viewer: "off" (not mounted), "down" or "up"
    pending,   \* requests emitted without a connection; sent at the next one
    toServer,  \* requests under way
    toClient,  \* lines under way
    room,      \* viewers whose present server socket joined the room
    screen,    \* the state "logs" of Logs.tsx
    dismissed, \* history: lines that setLogs([]) removed from the screen
    dropped    \* history: viewers that lost a connection since they mounted

client == <<link, pending, screen, dismissed, dropped>>
vars   == <<file, count, toServer, toClient, room, client>>

(* Only a connected viewer has packets under way or a place in the room.    *)
TypeOK ==
    /\ file \in Seq(Lines)
    /\ count \in 0..MaxLines
    /\ link \in [Viewers -> {"off", "down", "up"}]
    /\ \A v \in Viewers :
          /\ pending[v] \in Seq(Requests)
          /\ toServer[v] \in Seq(Requests)
          /\ toClient[v] \in Seq(Lines)
          /\ screen[v] \in Seq(Lines)
          /\ link[v] # "up" => toServer[v] = <<>> /\ toClient[v] = <<>> /\ v \notin room
          /\ link[v] # "down" => pending[v] = <<>>
    /\ room \subseteq Viewers
    /\ dismissed \in [Viewers -> SUBSET Lines]
    /\ dropped \subseteq Viewers

Init ==
    /\ file = <<>>
    /\ count = 0
    /\ link = [v \in Viewers |-> "off"]
    /\ pending = [v \in Viewers |-> <<>>]
    /\ toServer = [v \in Viewers |-> <<>>]
    /\ toClient = [v \in Viewers |-> <<>>]
    /\ room = {}
    /\ screen = [v \in Viewers |-> <<>>]
    /\ dismissed = [v \in Viewers |-> {}]
    /\ dropped = {}

-----------------------------------------------------------------------------
(* The browser.                                                             *)

Emit(v, request) ==
    /\ Len(pending[v]) + Len(toServer[v]) < MaxPackets
    /\ IF link[v] = "up"
       THEN /\ toServer' = [toServer EXCEPT ![v] = Append(@, request)]
            /\ UNCHANGED pending
       ELSE /\ pending' = [pending EXCEPT ![v] = Append(@, request)]
            /\ UNCHANGED toServer

(* The effect of Logs.tsx: connecting takes a while, request-logs does not  *)
(* wait for it.                                                             *)
Mount(v) ==
    /\ link[v] = "off"
    /\ link' = [link EXCEPT ![v] = "down"]
    /\ Emit(v, "request-logs")
    /\ dropped' = dropped \ {v}
    /\ UNCHANGED <<file, count, toClient, room, screen, dismissed>>

Connect(v) ==
    /\ link[v] = "down"
    /\ link' = [link EXCEPT ![v] = "up"]
    /\ toServer' = [toServer EXCEPT ![v] = pending[v]]
    /\ pending' = [pending EXCEPT ![v] = <<>>]
    /\ UNCHANGED <<file, count, toClient, room, screen, dismissed, dropped>>

ClearScreen(v) ==
    /\ screen' = [screen EXCEPT ![v] = <<>>]
    /\ dismissed' = [dismissed EXCEPT ![v] = @ \cup Range(screen[v])]

(* The Clear Logs button, and the trigger-run-script event.                 *)
Click(v, request) ==
    /\ link[v] # "off"
    /\ Emit(v, request)
    /\ ClearScreen(v)
    /\ UNCHANGED <<file, count, link, toClient, room, dropped>>

Show(v) ==
    /\ toClient[v] # <<>>
    /\ screen' = [screen EXCEPT ![v] = Append(@, Head(toClient[v]))]
    /\ toClient' = [toClient EXCEPT ![v] = Tail(@)]
    /\ UNCHANGED <<file, count, toServer, room, link, pending, dismissed, dropped>>

(* The end of a server socket: it leaves its room.                          *)
Disconnect(v) ==
    /\ toServer' = [toServer EXCEPT ![v] = <<>>]
    /\ toClient' = [toClient EXCEPT ![v] = <<>>]
    /\ room' = room \ {v}

(* The connection is lost, by the network or by a restart of the server.    *)
Drop(v) ==
    /\ link[v] = "up"
    /\ link' = [link EXCEPT ![v] = "down"]
    /\ dropped' = dropped \cup {v}
    /\ Disconnect(v)
    /\ UNCHANGED <<file, count, pending, screen, dismissed>>

(* Slip: the cleanup does not disconnect the socket.                        *)
UnmountConnected(v) ==
    /\ link[v] # "off"
    /\ link' = [link EXCEPT ![v] = "off"]
    /\ pending' = [pending EXCEPT ![v] = <<>>]
    /\ screen' = [screen EXCEPT ![v] = <<>>]
    /\ dismissed' = [dismissed EXCEPT ![v] = {}]
    /\ UNCHANGED <<file, count, toServer, toClient, room, dropped>>

(* The effect's cleanup, when the user opens another tab or leaves.         *)
Unmount(v) ==
    /\ link[v] # "off"
    /\ link' = [link EXCEPT ![v] = "off"]
    /\ pending' = [pending EXCEPT ![v] = <<>>]
    /\ screen' = [screen EXCEPT ![v] = <<>>]
    /\ dismissed' = [dismissed EXCEPT ![v] = {}]
    /\ Disconnect(v)
    /\ UNCHANGED <<file, count, dropped>>

-----------------------------------------------------------------------------
(* The server.                                                              *)

logAndEmit ==
    /\ count < MaxLines
    /\ count' = count + 1
    /\ file' = Append(file, count + 1)
    /\ toClient' = [v \in Viewers |->
           IF v \in room THEN Append(toClient[v], count + 1) ELSE toClient[v]]

(* A deployment writes a line.                                              *)
Output == logAndEmit /\ UNCHANGED <<toServer, room, client>>

Receive(v, request) ==
    /\ toServer[v] # <<>>
    /\ Head(toServer[v]) = request
    /\ toServer' = [toServer EXCEPT ![v] = Tail(@)]

(* Slip: the handler lets other events in between the replay and the join.  *)
RequestLogsAwaits(v) ==
    /\ \/ /\ Receive(v, "request-logs")
          /\ toClient' = [toClient EXCEPT ![v] = @ \o file]
          /\ UNCHANGED room
       \/ /\ link[v] = "up" /\ v \notin room /\ toServer[v] = <<>>
          /\ room' = room \cup {v}
          /\ UNCHANGED <<toServer, toClient>>
    /\ UNCHANGED <<file, count, client>>

(* Slip: the socket is sent the file and does not join the room.            *)
RequestLogsOnce(v) ==
    /\ Receive(v, "request-logs")
    /\ toClient' = [toClient EXCEPT ![v] = @ \o file]
    /\ UNCHANGED <<file, count, room, client>>

(* The file is replayed to this socket, which then joins the room.          *)
RequestLogs(v) ==
    /\ Receive(v, "request-logs")
    /\ toClient' = [toClient EXCEPT ![v] = @ \o file]
    /\ room' = room \cup {v}
    /\ UNCHANGED <<file, count, client>>

(* Slip: a refused start replays the file, as re-attaching does.            *)
RunScriptReplays(v) ==
    /\ Receive(v, "run-script")
    /\ \/ logAndEmit
       \/ /\ toClient' = [toClient EXCEPT ![v] = @ \o file]
          /\ UNCHANGED <<file, count>>
    /\ UNCHANGED <<room, client>>

(* A deployment that is accepted writes its first line at once; one that is *)
(* refused writes none.                                                     *)
RunScript(v) ==
    /\ Receive(v, "run-script")
    /\ logAndEmit \/ UNCHANGED <<file, count, toClient>>
    /\ UNCHANGED <<room, client>>

(* Unlinking the file may fail.                                             *)
ClearLogs(v) ==
    /\ Receive(v, "clear-logs")
    /\ file' = <<>> \/ UNCHANGED file
    /\ UNCHANGED <<count, toClient, room, client>>

Serve(v) == RequestLogs(v) \/ RunScript(v) \/ ClearLogs(v)

Next ==
    \/ Output
    \/ \E v \in Viewers :
          \/ Mount(v) \/ Connect(v) \/ Show(v) \/ Drop(v) \/ Unmount(v)
          \/ Click(v, "clear-logs") \/ Click(v, "run-script")
          \/ Serve(v)

Spec == Init /\ [][Next]_vars

(* The client keeps trying to connect; both event loops run their handlers. *)
(* Nothing is assumed of the deployments or the user.                       *)
FairSpec ==
    /\ Spec
    /\ \A v \in Viewers : WF_vars(Connect(v)) /\ WF_vars(Serve(v)) /\ WF_vars(Show(v))

-----------------------------------------------------------------------------
(* A browser never shows a line twice or after a later one, although the    *)
(* replay of the file and the room's emissions come from two sources, and   *)
(* the browser may have lost its connection in between.                     *)
ScreenInOrder ==
    \A v \in Viewers :
        LET s == screen[v] \o toClient[v]
        IN  \A i, j \in DOMAIN s : i < j => s[i] < s[j]

(* No line falls between the replay and the room: whoever is in the room    *)
(* has, or is about to get, every line of the log file, unless the user     *)
(* dismissed it, whoever else clears the file and whenever lines arrive.    *)
RoomSeesAll ==
    \A v \in room : Range(file) \subseteq Range(screen[v] \o toClient[v]) \cup dismissed[v]

(* Every line of the log gets to the screen of a mounted viewer whose       *)
(* connection holds, even if it mounted after the line was written.         *)
EveryLineShown ==
    \A v \in Viewers, n \in Lines :
        (link[v] # "off" /\ n \in Range(file))
            ~> \/ n \in Range(screen[v]) \cup dismissed[v]
               \/ n \notin Range(file)
               \/ link[v] = "off" \/ v \in dropped
=============================================================================
