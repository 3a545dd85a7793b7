------------------------------ MODULE MCEndpoints ------------------------------
(***************************************************************************)
(* Instances for TLC of an object's endpoints: the groups that the         *)
(* registry and the servers change, and the choice within a group of       *)
(* adapters.  A behaviour is about one of the two.                         *)
(***************************************************************************)
EXTENDS Endpoints, TLC

CONSTANTS
  N, TryInterval, CheckInterval, TransInterval, FailFrequency, FailInterval, MinTimeouts,
  Radio, MaxOut, MaxTotal

VARIABLES subject, position, proxies, out, server, since, pick

groupVars == <<position, proxies, out, server, since, pick>>

Group == INSTANCE AdapterGroup WITH ad <- proxies

ASSUME GroupAssumption == Group!GroupAssumption

Symmetry == Permutations(Hosts) \cup Permutations(Adapters)

EndpointsInit ==
  /\ subject \in {"object", "group"}
  /\ Init
  /\ subject = "group" =>
       ~direct /\ {e \in Endpoint : e.grid = 0} \subseteq known /\ Unused \notin Range(ad)
  /\ Group!Init

EndpointsNext ==
  /\ \/ subject = "object" /\ Next /\ UNCHANGED groupVars
     \/ subject = "group" /\ Group!Next /\ UNCHANGED vars
  /\ UNCHANGED subject

EndpointsSpec == EndpointsInit /\ [][EndpointsNext]_<<vars, groupVars, subject>>

(* AdapterGroup's property, with the types of its state: a disabled server *)
(* is left alone for its interval while another one can take the call.     *)
RetriesAreSpaced == []Group!TypeOK /\ Group!RetriesAreSpaced
==============================================================================
