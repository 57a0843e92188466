-------------------------------- MODULE Objects --------------------------------
(***************************************************************************)
(* Objects that the compositor and its clients share and that have no      *)
(* state in common: the surfaces a client exports to another, the          *)
(* configurations of outputs, the windows and the desktops of a Plasma     *)
(* session, the leases of connectors, the parameters of dma-bufs, the      *)
(* outputs, layer surfaces, activation tokens, memory pools and the        *)
(* connection itself.                                                      *)
(***************************************************************************)
EXTENDS XdgForeign

CONSTANTS
  Output, Config,                         \* of output configurations
  Window, Desktop, Id,                    \* of Plasma windows and desktops
  LeaseBind, Connector, LeaseRequest,               \* of leases
  Fd, Planes, Word, Offset, Stride, Height, FileSize, Modifier, \* of dma-bufs
  Mode, Position, LogicalSize, Description, Version, \* of outputs
  Name, Interface,                        \* of the connection
  RoleSurface, Layer, Token, Seat,        \* of layer surfaces and tokens
  Bytes, Format, InitialSize, MaxInt,     \* of memory pools
  Reuse,        \* whether a released Registry is set up again
  Careful,      \* whether the application connects only without connection
  Redraws,      \* whether buffers of a pool are drawn again while they are used
  MaxSerial, MaxWindowChanges, MaxDesktopChanges, MaxOutputChanges, MaxConnects,
  MaxGlobalChanges, MaxBuffers, MaxSetups \* bounds

VARIABLES
  manager, stopped, heads, configurationGone, released, changed, serial,
  configurationWaiting, fronts, configurationResources, linked, serialOf,
  configurationOn, off, configurationUsed, cancelled, answers,
  configurationFault,
  windows, windowGone, windowActive, parent, desks, windowOn, follows, windowBound,
  windowChanges, windowEvents, windowRequests, proxies, unmapped, rows,
  windowIsActive, parentOf, entered, activeWindow,
  desktops, desktopActive, desktopResources, orphans, desktopBound,
  desktopChanges, desktopEvents, desktopRequests, list, idOf, desktopIsActive,
  desktopFault,
  device, leaseWaiting, leaseActive, leaseGone, connectors, offered, destroyed,
  told, leaseResources, leaseRequests, leaseAsked, leased, leaseFault,
  global, params, ended, planes, count, modifier, requested, buffer, height,
  sent, closed,
  modes, pending, published, live, made, xdgManager, xdgOutput, outputBound,
  xdgBound, outputChanges, outputEvents, outputRequests, version, output,
  outputAsked, xdgPending, xdgCurrent, outputFault,
  globals, connectionUsed, connectionChanges, display, connects, established,
  error, failure, call, signals, known, queue, registry, listens, interfaces,
  objects, misled, connectionFault,
  layerSurfaces, attached, otherRole, subs, layers, layerOf, layerSurfaceOf,
  enabled, stale, layerOutputOf, layerPending, layerCurrent, layerSerials,
  displaySerial, acked, layerClosed, layerFault,
  activation, seats, tokenSurfaces, tokens, deviceSet, seat, tokenListens,
  tokenSurface, seatAsked, tokenFault,
  shm, valid, size, offset, buffers, drawn, poolRequests, serverSize, held, releases,
  setups, poolFault

configurationsVars == <<manager, stopped, heads, configurationGone, released,
                        changed, serial, configurationWaiting, fronts,
                        configurationResources, linked, serialOf,
                        configurationOn, off, configurationUsed, cancelled,
                        answers, configurationFault>>
windowsVars == <<windows, windowGone, windowActive, parent, desks, windowOn,
                 follows, windowBound, windowChanges, windowEvents, windowRequests,
                 proxies, unmapped, rows, windowIsActive, parentOf, entered,
                 activeWindow>>
desktopsVars == <<desktops, desktopActive, desktopResources, orphans,
                  desktopBound, desktopChanges, desktopEvents, desktopRequests,
                  list, idOf, desktopIsActive, desktopFault>>
leasesVars == <<device, leaseWaiting, leaseActive, leaseGone, connectors,
                offered, destroyed, told, leaseResources, leaseRequests,
                leaseAsked, leased, leaseFault>>
paramsVars == <<global, params, ended, planes, count, modifier, requested,
                buffer, height, sent, closed>>
outsVars == <<modes, pending, published, live, made, xdgManager, xdgOutput,
              outputBound, xdgBound, outputChanges, outputEvents,
              outputRequests, version, output, outputAsked, xdgPending,
              xdgCurrent, outputFault>>
connectionsVars == <<globals, connectionUsed, connectionChanges, display,
                     connects, established, error, failure, call, signals,
                     known, queue, registry, listens, interfaces, objects,
                     misled, connectionFault>>

layersVars == <<layerSurfaces, attached, otherRole, subs, layers, layerOf,
                layerSurfaceOf, enabled, stale, layerOutputOf, layerPending,
                layerCurrent, layerSerials, displaySerial, acked, layerClosed,
                layerFault>>
tokensVars == <<activation, seats, tokenSurfaces, tokens, deviceSet, seat,
                tokenListens, tokenSurface, seatAsked, tokenFault>>
poolVars == <<shm, valid, size, offset, buffers, drawn, poolRequests, serverSize, held,
              releases, setups, poolFault>>

partsVars == <<configurationsVars, windowsVars, desktopsVars, leasesVars, paramsVars,
               outsVars, connectionsVars, layersVars, tokensVars, poolVars>>

Configurations == INSTANCE OutputConfiguration
  WITH gone <- configurationGone, waiting <- configurationWaiting,
       resources <- configurationResources, on <- configurationOn,
       used <- configurationUsed, fault <- configurationFault
Windows == INSTANCE PlasmaWindows
  WITH MaxChanges <- MaxWindowChanges,
       gone <- windowGone, active <- windowActive, on <- windowOn,
       bound <- windowBound, changes <- windowChanges, events <- windowEvents,
       requests <- windowRequests, isActive <- windowIsActive
Desktops == INSTANCE VirtualDesktops
  WITH MaxChanges <- MaxDesktopChanges, active <- desktopActive,
       resources <- desktopResources, bound <- desktopBound,
       changes <- desktopChanges, events <- desktopEvents,
       requests <- desktopRequests, isActive <- desktopIsActive,
       fault <- desktopFault
Leases == INSTANCE DrmLease
  WITH Bind <- LeaseBind, Request <- LeaseRequest,
       waiting <- leaseWaiting, active <- leaseActive, gone <- leaseGone,
       resources <- leaseResources, requests <- leaseRequests,
       asked <- leaseAsked, fault <- leaseFault
Params == INSTANCE DmabufParams
Outs == INSTANCE Outputs
  WITH MaxChanges <- MaxOutputChanges,
       bound <- outputBound, changes <- outputChanges, events <- outputEvents,
       requests <- outputRequests, asked <- outputAsked, fault <- outputFault
Connections == INSTANCE Connection
  WITH MaxChanges <- MaxGlobalChanges,
       used <- connectionUsed, changes <- connectionChanges,
       fault <- connectionFault
Layers == INSTANCE LayerShell
  WITH Surface <- RoleSurface,
       surfaces <- layerSurfaces, surfaceOf <- layerSurfaceOf,
       outputOf <- layerOutputOf, pending <- layerPending,
       current <- layerCurrent, serials <- layerSerials,
       serial <- displaySerial, closed <- layerClosed, fault <- layerFault
Tokens == INSTANCE XdgActivation
  WITH Surface <- RoleSurface,
       device <- activation, surfaces <- tokenSurfaces, listens <- tokenListens,
       surface <- tokenSurface, asked <- seatAsked, fault <- tokenFault
Pool == INSTANCE ShmPool
  WITH requests <- poolRequests, fault <- poolFault

(* The parts assume of their constants what holds of these.                *)
ASSUME PartsAssumption ==
  /\ Assumptions /\ Configurations!Assumptions /\ Windows!Assumptions /\ Desktops!Assumptions
  /\ Params!Assumptions /\ Outs!Assumptions /\ Connections!Assumptions
  /\ Layers!Assumptions /\ Tokens!Assumptions /\ Pool!Assumptions

-----------------------------------------------------------------------------
(* The members of these objects only take values of their types            *)
(* (wlr_output_manager_v1_p.h, plasma_window_p.h, drm_lease_v1_p.h).       *)
TypesOK ==
  /\ TypeOK /\ Configurations!TypeOK /\ Windows!TypeOK /\ Desktops!TypeOK /\ Leases!TypeOK
  /\ Params!TypeOK /\ Outs!TypeOK /\ Connections!TypeOK
  /\ Layers!TypeOK /\ Tokens!TypeOK /\ Pool!TypeOK

(* The compositor is handed configurations for the heads announced last,   *)
(* and answers each once; clients acknowledge configures of layer surfaces *)
(* in their order (wlr_output_manager_v1.cpp:65-128,                       *)
(* wlr_output_configuration_v1.cpp:35-90, layer_shell_v1.cpp:238-264).     *)
AnswersInOrder ==
  /\ Configurations!UsedFresh /\ Configurations!AnsweredOnce
  /\ Layers!AcksForward

(* A bind is told of every connector of the device once                    *)
(* (drm_lease_v1.cpp:77-93, 118-140).                                      *)
ToldOnce == Leases!ToldOnce

(* A file descriptor has one owner until it is closed, a byte of a pool    *)
(* belongs to one buffer that is drawn or read, and a surface is a layer   *)
(* surface or a window (linux_dmabuf_v1.cpp:164-172, 221-271, 363-410,     *)
(* src/client/shm_pool.cpp:231-270, layer_shell_v1.cpp:53-61).             *)
OneOwner ==
  /\ Params!OneOwner
  /\ Pool!SlotsApart /\ Pool!NotReadWhileDrawn
  /\ Layers!LayerIsOnlyRole

(* What a client is told is complete is one state that was published       *)
(* (output.cpp:104-137).                                                   *)
DoneIsWhole == Outs!DoneIsWhole

(* Once everything under way has arrived, a client sees the windows, the   *)
(* desktops and the outputs of the server and knows its globals            *)
(* (src/client/plasmawindowmanagement.cpp:331-370, 481-640,               *)
(* src/client/plasmavirtualdesktop.cpp:137-172, 344-385,                 *)
(* src/client/output.cpp:224-292, src/client/registry.cpp:798-829).       *)
ClientsAgree ==
  /\ Windows!Mirrored /\ Desktops!SameDesktops
  /\ Outs!OutputMirrored /\ Connections!RegistryKnows

(* What is pointed to is there: the active window is one of the client's   *)
(* windows (src/client/plasmawindowmanagement.cpp:340-366), what a         *)
(* registry created goes before its display                                *)
(* (src/client/registry.cpp:711-716), layer surfaces have a surface and an *)
(* output, and tokens the seat named last, while these exist               *)
(* (layer_shell_v1.cpp:127-141, 274-283, xdg_activation_v1.cpp:80-101).    *)
PointedToLives ==
  /\ Windows!ActiveWindowLives /\ Connections!ObjectsAlive
  /\ Layers!LayersLinked /\ Tokens!TokensCurrent

-----------------------------------------------------------------------------
(* Where the code does other than its comments and tests say; see the      *)
(* modules, also for what is said of exported surfaces.                    *)

(* "assert(!d_ptr->is_cancelled);" (wlr_output_configuration_v1.cpp:264)   *)
CancelledOnce == Configurations!CancelledOnce

(* A request about a head that is gone is harmless                         *)
(* (wlr_output_configuration_v1.cpp:35-90).                                *)
HeadsPresent == Configurations!HeadsPresent

(* No configuration outlives its manager (wlr_output_manager_v1.cpp).      *)
ManagerAlive == Configurations!ManagerAlive

(* A null parent means "a top level window"                                *)
(* (src/client/plasmawindowmanagement.h:469).                              *)
NullParentIsToplevel == Windows!NullParentIsToplevel

(* "there is no active window" (src/client/plasmawindowmanagement.h:167)   *)
NullMeansNoneActive == Windows!NullMeansNoneActive

(* Windows are on desktops that exist: "if the desktop dies, remove it     *)
(* from or list" (plasma_window.cpp:715)                                   *)
DesktopsExist == Windows!DesktopsExist

(* Requests name desktops that the server has (plasma_virtual_desktop.cpp). *)
ObjectsKnown == Desktops!ObjectsKnown

(* "Global has been deleted server-side, fail silently."                   *)
(* (drm_lease_v1.cpp:268)                                                  *)
NoNullConnector == Leases!NoNullConnector

(* What is leased exists (drm_lease_v1.cpp:286-313).                       *)
LeasedAlive == Leases!LeasedAlive

(* "size overflow for plane %i" (linux_dmabuf_v1.cpp:312)                  *)
FirstPlaneFits == Params!FirstPlaneFits

(* "@returns The Modes of this Output." (src/client/output.h:192)          *)
ModesKnown == Outs!ModesKnown

(* Enabled outputs are in the map of logical outputs (xdg_output.cpp:68).  *)
XdgOutputThere == Outs!XdgOutputThere

(* With Reuse: a Registry set up again knows the globals                   *)
(* (src/client/registry.h:237).                                            *)
RegistryKnows == Connections!RegistryKnows

(* No freed display is used (src/client/connection_thread.cpp:114).        *)
DisplayAlive == Connections!DisplayAlive

(* Without Careful: flush and roundtrip find a display                     *)
(* (src/client/connection_thread.cpp:251-278).                             *)
EstablishedHasDisplay == Connections!EstablishedHasDisplay

(* "true if there was a protocol error"                                    *)
(* (src/client/connection_thread.h:226)                                    *)
NotMisled == Connections!NotMisled

(* "add check that surface is not already used in an interface"            *)
(* (subcompositor.cpp:85)                                                  *)
HearsCommits == Layers!HearsCommits

(* The output that get_layer_surface names may be gone                     *)
(* (layer_shell_v1.cpp:50).                                                *)
LayerOutputThere == Layers!OutputThere

(* The surface of a token may be gone (xdg_activation_v1.cpp:146-149).     *)
TokenSurfaceAlive == Tokens!SurfaceAlive

(* A pool does not grow for ever (src/client/shm_pool.cpp:245-268).        *)
NoOverflow == Pool!NoOverflow

(* With Redraws: "true if the Wayland server doesn't need the Buffer       *)
(* anymore" (src/client/buffer.h:94)                                       *)
ReleasedMeansFree == Pool!ReleasedMeansFree

(* "Creating Shm pool failed" (src/client/shm_pool.cpp:129)                *)
MappingNoticed == Pool!MappingNoticed
=============================================================================
