------------------------------ MODULE MCObjects ------------------------------
(***************************************************************************)
(* The objects on a small instance: a behaviour is one of one of the       *)
(* parts, chosen at the start; the others stay in an initial state.        *)
(***************************************************************************)
EXTENDS Objects

CONSTANT a1 \* the description that most behaviours start with

VARIABLE part

MCInit ==
  /\ part \in {"foreign", "configuration", "window", "desktop", "lease", "params",
              "output", "connection", "layer", "token", "pool"}
  /\ Init /\ Configurations!Init /\ Windows!Init /\ Desktops!Init /\ Leases!Init
  /\ Params!Init /\ Outs!Init /\ Connections!Init
  /\ Layers!Init /\ Tokens!Init /\ Pool!Init
  /\ part # "output" =>
       /\ modes = {2} /\ ~xdgManager /\ version = 2
       /\ pending.position = 1 /\ pending.size = 1 /\ pending.description = a1

ForeignStep ==
  /\ part = "foreign" /\ Next
  /\ UNCHANGED partsVars
ConfigurationsStep ==
  /\ part = "configuration" /\ Configurations!Next
  /\ UNCHANGED <<vars, windowsVars, desktopsVars, leasesVars, paramsVars,
                 outsVars, connectionsVars, layersVars, tokensVars, poolVars>>
WindowsStep ==
  /\ part = "window" /\ Windows!Next
  /\ UNCHANGED <<vars, configurationsVars, desktopsVars, leasesVars, paramsVars,
                 outsVars, connectionsVars, layersVars, tokensVars, poolVars>>
DesktopsStep ==
  /\ part = "desktop" /\ Desktops!Next
  /\ UNCHANGED <<vars, configurationsVars, windowsVars, leasesVars, paramsVars,
                 outsVars, connectionsVars, layersVars, tokensVars, poolVars>>
LeasesStep ==
  /\ part = "lease" /\ Leases!Next
  /\ UNCHANGED <<vars, configurationsVars, windowsVars, desktopsVars, paramsVars,
                 outsVars, connectionsVars, layersVars, tokensVars, poolVars>>
ParamsStep ==
  /\ part = "params" /\ Params!Next
  /\ UNCHANGED <<vars, configurationsVars, windowsVars, desktopsVars, leasesVars,
                 outsVars, connectionsVars, layersVars, tokensVars, poolVars>>
OutsStep ==
  /\ part = "output" /\ Outs!Next
  /\ UNCHANGED <<vars, configurationsVars, windowsVars, desktopsVars, leasesVars,
                 paramsVars, connectionsVars, layersVars, tokensVars, poolVars>>
ConnectionsStep ==
  /\ part = "connection" /\ Connections!Next
  /\ UNCHANGED <<vars, configurationsVars, windowsVars, desktopsVars, leasesVars,
                 paramsVars, outsVars, layersVars, tokensVars, poolVars>>
LayersStep ==
  /\ part = "layer" /\ Layers!Next
  /\ UNCHANGED <<vars, configurationsVars, windowsVars, desktopsVars, leasesVars,
                 paramsVars, outsVars, connectionsVars, tokensVars, poolVars>>
TokensStep ==
  /\ part = "token" /\ Tokens!Next
  /\ UNCHANGED <<vars, configurationsVars, windowsVars, desktopsVars, leasesVars,
                 paramsVars, outsVars, connectionsVars, layersVars, poolVars>>
PoolStep ==
  /\ part = "pool" /\ Pool!Next
  /\ UNCHANGED <<vars, configurationsVars, windowsVars, desktopsVars, leasesVars,
                 paramsVars, outsVars, connectionsVars, layersVars, tokensVars>>

MCNext ==
  /\ UNCHANGED part
  /\ \/ ForeignStep \/ ConfigurationsStep \/ WindowsStep \/ DesktopsStep
     \/ LeasesStep \/ ParamsStep \/ OutsStep \/ ConnectionsStep
     \/ LayersStep \/ TokensStep \/ PoolStep

MCSpec == MCInit /\ [][MCNext]_<<part, vars, partsVars>>
=============================================================================
