----------------------------- MODULE Configuration -----------------------------
(***************************************************************************)
(* configure.json between the rounds: modconfig.js, which every round's    *)
(* script runs, writes the zones of the configured region and the          *)
(* addresses of the nodes in them; the workload sends to these addresses.  *)
(* The script itself reaches node n, to start it or to fetch its files,    *)
(* through the list of zones that it has read from the same file.          *)
(***************************************************************************)
EXTENDS Nodes, Integers, Sequences

CONSTANT Zones    \* Zones[region]: the zones of a region, in the order of their names

ASSUME ConfigurationAssumption ==
  \A region \in DOMAIN Zones :
    /\ Zones[region] \in Seq(STRING) /\ Zones[region] # << >>
    /\ \A i, j \in DOMAIN Zones[region] : Zones[region][i] = Zones[region][j] => i = j

VARIABLES
  zones,    \* config.region
  urls,     \* config[consensus].urls
  reached,  \* the zone in which the last script reaches each node
  rounds    \* how often modconfig.js has run since the region was edited, up to two (history)

configVars == <<zones, urls, reached, rounds>>

\* The nodes of one zone are numbered.
Host(n, zs) == n \div Len(zs)

ZoneOf(n, zs) == zs[(n % Len(zs)) + 1]

Addresses(zs) == [n \in Node |-> [zone |-> ZoneOf(n, zs), host |-> Host(n, zs)]]

Reached(zs) == [n \in Node |-> ZoneOf(n, zs)]

\* The file as it comes: it was written for some region.
ConfigInit ==
  /\ zones \in {Zones[region] : region \in DOMAIN Zones}
  /\ urls = Addresses(zones) /\ reached = Reached(zones)
  /\ rounds = 0

\* modconfig.js
ModConfig(region) ==
  /\ zones' = Zones[region]
  /\ urls' = Addresses(Zones[region])
  /\ rounds' = IF rounds < 2 THEN rounds + 1 ELSE rounds

\* Quorum's scripts read the zones before they run modconfig.js...
ReadAndModify(region) == ModConfig(region) /\ reached' = Reached(zones)

\* Mutant of the one below: the order of the other scripts.
ModifyBehindRead(region) == ModConfig(region) /\ reached' = Reached(zones)

\* ... those of Tendermint and Stellar behind it.
ModifyAndRead(region) == ModConfig(region) /\ reached' = Reached(Zones[region])

\* The region is edited: the zones and the addresses stay.
EditRegion == rounds' = 0 /\ UNCHANGED <<zones, urls, reached>>

==============================================================================
