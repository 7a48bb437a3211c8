--------------------------- MODULE BrowserStream ---------------------------
(***************************************************************************)
(* The page of one browser (ui/src/hooks/useTopologyStream.ts, auth.ts)    *)
(* and the streams of TopologyStream it connects to: it shows the          *)
(* snapshots it accepts, reconnects when a connection closes, and leaves   *)
(* for the sign-in page when the session is gone.  The page runs one event *)
(* handler at a time; the probe of the session is answered between two of  *)
(* them.  The delay before a reconnect is left out: any time may pass.     *)
(***************************************************************************)
EXTENDS TopologyStream

CONSTANT None

ASSUME NoneAssumption == None \notin Slots

VARIABLES
  page,    \* "mounted", "unmounted", or "login" after a redirect
  phase,   \* "timer" before a connection, "socket", "probe" after it, "off"
  socket,  \* the connection of the page, None when it has none
  first,   \* firstOnConnection, TRUE without a connection
  shown,   \* the snapshot on the page, <<instance, version>>, or None
  seen,    \* history: the latest version of each instance shown since loading
  probe    \* checkSession: "none", "sent", or its result

pageVars == <<page, phase, socket, first, shown, seen, probe>>
vars == <<streamVars, pageVars>>

PageInit ==
  /\ page = "mounted" /\ phase = "timer" /\ socket = None
  /\ first = TRUE /\ shown = None /\ seen = [i \in Instances |-> 0] /\ probe = "none"

Init == StreamInit /\ PageInit

\* The browser closes its end.
Closed(k) == IF handler[k] = "none" THEN "idle" ELSE IF link[k] = "cut" THEN "lost" ELSE "left"

\* connect, at once when the page is mounted and from the timer later.  Which
\* number a connection has makes no difference: it is the lowest that is free.
Connect(k) ==
  /\ phase = "timer" /\ link[k] = "idle"
  /\ \A j \in Slots : link[j] = "idle" => k <= j
  /\ link' = [link EXCEPT ![k] = "request"]
  /\ wire' = [wire EXCEPT ![k] = <<>>]
  /\ phase' = "socket" /\ socket' = k /\ first' = TRUE
  /\ UNCHANGED <<server, sessions, handlers, cuts, page, shown, seen, probe>>

\* Mutant: only the version decides.
AcceptNewerVersion(current, incoming, firstOne) ==
  IF current = None THEN incoming
  ELSE IF incoming[2] <= current[2] THEN current ELSE incoming

\* acceptSnapshot
Accept(current, incoming, firstOne) ==
  IF current = None THEN incoming
  ELSE IF firstOne \/ incoming[1] # current[1] THEN incoming
  ELSE IF incoming[2] <= current[2] THEN current ELSE incoming

OnMessage ==
  /\ phase = "socket" /\ wire[socket] # <<>>
  /\ shown' = Accept(shown, Head(wire[socket]), first)
  /\ seen' = [seen EXCEPT ![shown'[1]] = shown'[2]]
  /\ first' = FALSE
  /\ wire' = [wire EXCEPT ![socket] = Tail(@)]
  /\ UNCHANGED <<server, sessions, handlers, link, cuts, page, phase, socket, probe>>

\* onclose: everything sent before was received, or the connection was found
\* dead.  The session is asked about before the page reconnects.
OnClose ==
  /\ phase = "socket" /\ wire[socket] = <<>>
  /\ link[socket] \in {"ended", "cut"}
  /\ link' = [link EXCEPT ![socket] = Closed(socket)]
  /\ phase' = "probe" /\ socket' = None /\ first' = TRUE /\ probe' = "sent"
  /\ UNCHANGED <<server, sessions, handlers, wire, cuts, page, shown, seen>>

\* Mutant: every answer but a good one is taken for a failure.
AnswerProbeUnknown ==
  /\ probe = "sent"
  /\ probe' = IF live # {} /\ valid THEN "authenticated" ELSE "unknown"
  /\ UNCHANGED <<streamVars, page, phase, socket, first, shown, seen>>

\* GET /api/session: sessionCheckFromStatus of what a process answers, or of
\* the failure when it was sent to one that has ended.
AnswerProbe ==
  /\ probe = "sent"
  /\ \/ missing > 0 /\ probe' = "unknown"
     \/ live # {} /\ probe' = IF valid THEN "authenticated" ELSE "unauthenticated"
  /\ UNCHANGED <<streamVars, page, phase, socket, first, shown, seen>>

\* What the page showed goes with it.
Leave == phase' = "off" /\ shown' = None /\ seen' = [i \in Instances |-> 0]

\* Mutant: the answer is not dropped when the page has been unmounted.
HandleProbeAlways ==
  /\ probe \in {"unknown", "authenticated", "unauthenticated"}
  /\ probe' = "none"
  /\ IF probe = "unauthenticated" THEN page' = "login" /\ Leave
     ELSE phase' = "timer" /\ UNCHANGED <<page, shown, seen>>
  /\ UNCHANGED <<streamVars, socket, first>>

HandleProbe ==
  /\ probe \in {"unknown", "authenticated", "unauthenticated"}
  /\ probe' = "none"
  /\ \/ page # "mounted" /\ UNCHANGED <<page, phase, shown, seen>>
     \/ page = "mounted" /\ probe = "unauthenticated" /\ page' = "login" /\ Leave
     \/ /\ page = "mounted" /\ probe # "unauthenticated"
        /\ phase' = "timer" /\ UNCHANGED <<page, shown, seen>>
  /\ UNCHANGED <<streamVars, socket, first>>

\* The effect is cleaned up: the timer is cleared, the socket closed.
Unmount ==
  /\ page = "mounted"
  /\ page' = "unmounted" /\ Leave /\ socket' = None /\ first' = TRUE
  /\ IF socket = None THEN UNCHANGED <<link, wire>>
     ELSE /\ link' = [link EXCEPT ![socket] = Closed(socket)]
          /\ wire' = [wire EXCEPT ![socket] = <<>>]
  /\ UNCHANGED <<server, sessions, handlers, cuts, probe>>

\* The user signs in again, and the page is loaded anew.
SignIn ==
  /\ page = "login" /\ live # {} /\ cuts + session <= MaxFaults
  /\ session' = session + 1 /\ valid' = TRUE
  /\ page' = "mounted" /\ phase' = "timer"
  /\ UNCHANGED <<server, handlers, network, socket, first, shown, seen, probe>>

----------------------------------------------------------------------------
Handshake(k) == (\E i \in live : Upgrade(k, i)) \/ Refuse(k)
Handler(k) == Handshake(k) \/ Take(k) \/ Write(k) \/ PeerGone(k) \/ Expire(k)
Servers == (\E i \in live : Publish(i) \/ Crash(i)) \/ Start
Browser == (\E k \in Slots : Connect(k)) \/ OnMessage \/ OnClose \/ AnswerProbe \/ HandleProbe

Next ==
  \/ (Servers \/ SessionExpires) /\ UNCHANGED pageVars
  \/ \E k \in Slots : (Handler(k) \/ Cut(k)) /\ UNCHANGED pageVars
  \/ Browser \/ Unmount \/ SignIn

\* A handler's steps and the page's event handlers run when they can; a dead
\* peer is noticed by the pong deadline, a process that ended is restarted.
\* select chooses at random among the cases that are ready, so the expiry of
\* the session is chosen in the end although other cases are ready too.
Fairness ==
  /\ WF_vars(Start /\ UNCHANGED pageVars)
  /\ WF_vars(Browser)
  /\ \A k \in Slots :
       /\ WF_vars(Handshake(k) /\ UNCHANGED pageVars)
       /\ WF_vars((Take(k) \/ Write(k)) /\ UNCHANGED pageVars)
       /\ WF_vars(PeerGone(k) /\ UNCHANGED pageVars)
       /\ SF_vars(Expire(k) /\ UNCHANGED pageVars)

Spec == Init /\ [][Next]_vars /\ Fairness

----------------------------------------------------------------------------
Snapshots == Instances \X (1 .. MaxVersion)

\* A connection is open exactly while a handler serves it, until it is lost
\* or the browser closes it; the page has a socket exactly while it is in
\* that phase; and what was sent is read before a connection is given up.
TypeOK ==
  /\ live \subseteq 1 .. started /\ started \in Instances /\ missing \in Nat
  /\ started + missing <= MaxInstances
  /\ before \in [Instances -> SUBSET Instances]
  /\ version \in [Instances -> 0 .. MaxVersion]
  /\ valid \in BOOLEAN
  /\ home \in [Slots -> Instances]
  /\ handler \in [Slots -> {"none", "select", "writing"}]
  /\ link \in [Slots -> Links]
  /\ \A k \in Slots : handler[k] # "none" => (link[k] = "open" \/ Gone(k)) /\ home[k] \in live
  /\ \A k \in Slots : link[k] = "open" => handler[k] # "none"
  /\ \A k \in Slots : wire[k] # <<>> => link[k] \in {"open", "ended"}
  /\ phase = "socket" <=> socket # None
  /\ shown \in Snapshots \cup {None}
  /\ seen \in [Instances -> 0 .. MaxVersion]

\* A page that was unmounted, or left for the sign-in page, never connects
\* again, whatever was still under way (useTopologyStream.ts:148).
SilentAfterLeaving ==
  page # "mounted" => phase = "off" /\ \A k \in Slots : link[k] \notin {"request", "open"}

\* While the page stays loaded, what it shows never goes back, although a new
\* connection replaces the snapshot unconditionally (useTopologyStream.ts:85):
\* not to an older version of a process, be it one that it showed before it was
\* connected to other replicas, and not to a process that ended before the one
\* it shows was started.
ShownNeverGoesBack ==
  [][shown' # None /\ shown' # shown =>
       /\ shown'[2] >= seen[shown'[1]]
       /\ shown # None => /\ shown'[1] = shown[1] => shown'[2] > shown[2]
                          /\ shown'[1] \notin before[shown[1]]]_vars

\* A handler ends, and gives its subscription back, with the session that
\* authorized it (server.go:330) and when its browser is gone (server.go:310,
\* server.go:326), busy or not.
HandlersEnd ==
  \A k \in Slots :
    handler[k] # "none" /\ (OwnerExpired(k) \/ Gone(k)) ~> handler[k] = "none"

\* In spite of restarts and lost connections, a page that stays comes to show
\* the latest snapshot of a running process for good.
PageEventuallyCurrent ==
  <>[](page = "mounted" /\ valid /\ \A i \in live : version[i] > 0)
    => <>[](\E i \in live : shown = <<i, version[i]>>)

\* A page whose session has expired is sent to the sign-in page instead of
\* reconnecting for ever (auth.ts:1, useTopologyStream.ts:146).
SignedOutIsRedirected == page = "mounted" /\ ~valid ~> page # "mounted"
=============================================================================
