-------------------------- MODULE RelayRoutesProofs --------------------------
(* The types of what RelayRoutes computes.                                 *)
EXTENDS RelayRoutes, TLAPS

\* The routes of a relay host's files are a table of routes.
LEMMA RoutesType ==
  ASSUME NEW f \in Files
  PROVE  RoutesOf(f) \in Table
BY DEF RoutesOf, Files, NoRoutes, Table

\* A change of known routes makes a table of routes.
LEMMA ChangedType ==
  ASSUME NEW ch \in Change, NEW t \in Table,
         ch.action \in {"disable", "remove"} => ch.route \in Known(t)
  PROVE  Changed(ch, t) \in Table
<1>1. t \in Table
  OBVIOUS
<1>2. CASE ch.action = "apply"
  <2>1. ch.route \in RouteId /\ ch.entry \in Entry
    BY <1>2 DEF Change
  <2> QED BY <1>1, <1>2, <2>1 DEF Changed, Table
<1>3. CASE ch.action = "disable"
  <2>1. ch.route \in RouteId /\ t[ch.route] \in Entry
    BY <1>1, <1>3 DEF Change, Known, Table
  <2>2. [t[ch.route] EXCEPT !.enabled = FALSE] \in Entry
    BY <2>1 DEF Entry
  <2> QED BY <1>1, <1>3, <2>1, <2>2 DEF Changed, Table
<1>4. CASE ch.action = "remove"
  <2>1. ch.route \in RouteId
    BY <1>4 DEF Change
  <2> QED BY <1>1, <1>4, <2>1 DEF Changed, Table
<1>5. CASE ch.action \notin {"apply", "disable", "remove"}
  BY <1>1, <1>5 DEF Changed, NoRoutes, Table
<1> QED BY <1>2, <1>3, <1>4, <1>5

\* What is rendered from it is a configuration.
LEMMA RenderedType ==
  ASSUME NEW t \in Table
  PROVE  Rendered(t) \in Config
BY DEF Rendered, Known, Table, Entry, Config

\* The files a change asks for are files.
LEMMA DeployedType ==
  ASSUME NEW ch \in Change, NEW f \in Files, Applicable(ch, f)
  PROVE  /\ Deployed(ch, f) \in Files
         /\ ch.action # "uninstall" => Deployed(ch, f).config \in Config
         /\ Deployed(ch, f).unit = (ch.action # "uninstall")
<1>1. Changed(ch, RoutesOf(f)) \in Table
  <2>1. RoutesOf(f) \in Table
    BY RoutesType
  <2> QED BY <2>1, ChangedType DEF Applicable
<1>2. Rendered(Changed(ch, RoutesOf(f))) \in Config
  BY <1>1, RenderedType
<1>3. NoRoutes \in Table
  BY DEF NoRoutes, Table
<1> QED BY <1>1, <1>2, <1>3 DEF Deployed, Files
==============================================================================
