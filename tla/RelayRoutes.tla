---------------------------- MODULE RelayRoutes -----------------------------
(***************************************************************************)
(* The routes of a relay host and what each relay operation makes of them  *)
(* (internal/relay/service.go, Render and the edit in Handle).  A route    *)
(* stands for its upstream, too: an Instance has one route.                *)
(***************************************************************************)
EXTENDS Naturals, FiniteSets

CONSTANTS RouteId, Port, None, Missing

Entry == [port: Port, enabled: BOOLEAN]
Table == [RouteId -> Entry \cup {None}]
NoRoutes == [r \in RouteId |-> None]
Known(t) == {r \in RouteId : t[r] # None}

\* Render: a listen port is reserved by a disabled route as well.
Conflict(t) == \E r, s \in Known(t) : r # s /\ t[r].port = t[s].port
Rendered(t) == {<<t[r].port, r>> : r \in {s \in Known(t) : t[s].enabled}}
Ports(config) == {server[1] : server \in config}

(* The three files Helper owns on the relay host; Missing: no such file.   *)
Config == SUBSET (Port \X RouteId)
Files == [config: Config \cup {Missing}, unit: BOOLEAN, routes: Table \cup {Missing}]
NoFiles == [config |-> Missing, unit |-> FALSE, routes |-> Missing]
Installed(f) == f.unit /\ f.config # Missing
RoutesOf(f) == IF f.routes = Missing THEN NoRoutes ELSE f.routes

Change ==
  [action: {"apply"}, route: RouteId, entry: Entry]
    \cup [action: {"disable", "remove"}, route: RouteId]
    \cup [action: {"install", "update", "uninstall"}]

Applicable(ch, f) ==
  /\ ch.action \in {"apply", "disable", "remove"} => Installed(f)
  /\ ch.action \in {"disable", "remove"} => ch.route \in Known(RoutesOf(f))

Changed(ch, t) ==
  CASE ch.action = "apply" -> [t EXCEPT ![ch.route] = ch.entry]
    [] ch.action = "disable" -> [t EXCEPT ![ch.route].enabled = FALSE]
    [] ch.action = "remove" -> [t EXCEPT ![ch.route] = None]
    [] ch.action = "uninstall" -> NoRoutes
    [] OTHER -> t

\* The files after the change: uninstall keeps an empty routes file.
Deployed(ch, f) ==
  LET t == Changed(ch, RoutesOf(f)) IN
    IF ch.action = "uninstall"
    THEN [config |-> Missing, unit |-> FALSE, routes |-> NoRoutes]
    ELSE [config |-> Rendered(t), unit |-> TRUE, routes |-> t]
=============================================================================
