--------------------------- MODULE PricingRoutes ---------------------------
(***************************************************************************)
(* Pricing regions and the zone matrix: what both a quote and a delivery   *)
(* date look up first.                                                     *)
(***************************************************************************)
EXTENDS Integers, FiniteSets

CONSTANTS
  Regions,      \* ids of regions
  Names,        \* what a region may be called: its code, its name, an alias
  Zones,
  ByName,       \* the place of each region when they are sorted by name
  RegionInputs, \* what managers save of a region
  Unset,        \* null
  MaxSaves      \* bound on what managers save

ASSUME RoutesAssumption ==
  /\ ByName \in [Regions -> Nat]
  /\ RegionInputs \subseteq [active : BOOLEAN, names : SUBSET Names, sortOrder : Nat]
  /\ Unset \notin Regions \cup Names \cup Zones
  /\ Unset \notin RegionInputs
  /\ MaxSaves \in Nat

VARIABLES
  region,    \* the PricingRegion rows
  zone,      \* the ZoneMatrixEntry rows
  saves      \* saves so far

routesVars == <<region, zone, saves>>

----------------------------------------------------------------------------
Region == [active : BOOLEAN, names : SUBSET Names, sortOrder : Nat]
Known  == {r \in Regions : region[r] # Unset}

\* Whatever managers have saved before.
RoutesInit ==
  /\ region \in [Regions -> RegionInputs \cup {Unset}]
  /\ zone \in [Regions \X Regions -> Zones \cup {Unset}]
  /\ \A pair \in Regions \X Regions : zone[pair] # Unset => pair \in Known \X Known
  /\ saves = 0

Save == saves < MaxSaves /\ saves' = saves + 1

\* createPricingRegion and updatePricingRegion: the whole row is replaced.
SaveRegion(r) ==
  /\ Save
  /\ \E row \in RegionInputs : region' = [region EXCEPT ![r] = row]
  /\ UNCHANGED zone

\* upsertZoneMatrix: entries of known regions, all of them or none.
SaveZones(entries, z) ==
  /\ Save
  /\ entries # {} /\ entries \subseteq Known \X Known
  /\ zone' = [pair \in Regions \X Regions |-> IF pair \in entries THEN z ELSE zone[pair]]
  /\ UNCHANGED region

----------------------------------------------------------------------------
(* resolvePricingRouteContext.                                             *)

Before(r, s) ==
  \/ region[r].sortOrder < region[s].sortOrder
  \/ region[r].sortOrder = region[s].sortOrder /\ ByName[r] < ByName[s]

\* The first of the active regions that goes by the name.
Matching(name) ==
  LET matches == {r \in Known : region[r].active /\ name \in region[r].names}
  IN IF matches = {} THEN Unset
     ELSE CHOOSE r \in matches : \A s \in matches : ~Before(s, r)

Route == [origin : Regions \cup {Unset}, destination : Regions \cup {Unset},
          zone : Zones \cup {Unset}]

\* The regions come from one query: nothing is matched without both names, no
\* destination without an origin.
RouteRegions(from, to) ==
  LET origin      == IF from = Unset \/ to = Unset THEN Unset ELSE Matching(from)
      destination == IF origin = Unset THEN Unset ELSE Matching(to)
  IN [origin |-> origin, destination |-> destination, zone |-> Unset]

\* The zone comes from another, if both regions are found; a known pair may
\* have none yet.
WithZone(route) ==
  IF Unset \in {route.origin, route.destination} THEN route
  ELSE [route EXCEPT !.zone = zone[<<route.origin, route.destination>>]]

RouteContext(from, to) == WithZone(RouteRegions(from, to))

----------------------------------------------------------------------------
RoutesNext ==
  \/ \E r \in Regions : SaveRegion(r)
  \/ \E entries \in SUBSET (Regions \X Regions), z \in Zones : SaveZones(entries, z)

\* Rows are well-formed and zones are of known regions.
RoutesTypeOK ==
  /\ region \in [Regions -> RegionInputs \cup {Unset}]
  /\ zone \in [Regions \X Regions -> Zones \cup {Unset}]
  /\ \A pair \in Regions \X Regions : zone[pair] # Unset => pair \in Known \X Known
  /\ saves \in 0..MaxSaves
=============================================================================
