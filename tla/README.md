# Verification of Wrapland

Wrapland wraps libwayland for Qt programs. Its server library (`server/`) keeps one C++ object per
protocol resource and hands a compositor the committed state of its clients; its client library
(`src/client/`) does the opposite for applications. Neither uses threads for this (but for the
connection thread of the client library): every request, event, timer and call of the compositor
runs to its end in the event loop. What is hard is their order. Objects are destroyed by clients
at any time, while other objects point to them; requests change pending state that later commits
apply; Qt connections stay or go; and every list kept twice must stay the same list.

This directory holds TLA+ models of that bookkeeping, TLC configurations that check them on small
instances, and theorems that TLAPS proves for all instances. Paths below are relative to the
repository; a path without `src/` is below `server/`.

## Inventory

Each entry names the state, the operations, what it interacts with, what is hard, what makes it
correct, and the modules.

**Surface tree** (`surface.cpp`, `subcompositor.cpp`; modules `SurfaceTree`, `Stacking`,
`SurfaceSize`, `SurfaceEffects`). A surface has a pending and a current state, a subsurface also a
cached one, a mode, a parent, a scheduled position. Requests change pending; a commit moves pending
to current or, in a synchronized subsurface, to cached; a commit above, or the end of synchronized
mode, applies cached recursively. Buffers, effects and children tell the surface when they are
destroyed. Hard: commits of several surfaces in any order, mode changes between a cached and an
applied commit, destruction of parent, child, role or surface in any order. Correct if lists and
back pointers agree, nothing is held by two states, synchronized content appears only together with
the content above it, and nothing committed is lost.

**Wayland core** (`wayland/`, `display.cpp`, `client.cpp`; `Globals`). A `Global` belongs to the
compositor; its `Nucleus` belongs to itself, lists the binds and outlives the `Global` by five
seconds. Display, clients, globals, nuclei, `wl_global`s, binds and resources point to each other
and are destroyed by the compositor, the client, a timer and the end of the display. Correct if no
pointer is left to an object that is gone and every nucleus is deleted in the end.

**Seat and pointer** (`seat.cpp`, `pointer_pool.cpp`, `pointer.cpp`, `pointer_gestures_v1.cpp`;
`PointerPool`), **keyboard** (`keyboard_pool.cpp`; `KeyboardPool`), **touch** (`touch_pool.cpp`;
`TouchPool`). A pool keeps the focused surface, the focused devices of its client, and buttons, keys
or touch points in use. The compositor moves focus and feeds input; clients create and destroy
devices and surfaces in between; the pool comes and goes with the capability, the devices do not.
Correct if what each client believes to be focused, pressed or down is so.

**Drag and drop** (`drag_pool.cpp`; `DragPool`). The source, origin, target surface, target devices
and their offers, kept consistent through Qt connections that are made by one event and removed by
another. It is entered from pointer and touch input, from `wl_data_device` and from the compositor.
Correct if a drag only talks to objects that exist and that belong to this drag.

**Selections** (`selection_p.h`, `selection_pool.h`, `data_device.cpp`, `primary_selection.cpp`,
`data_control_v1.cpp`; `Selection`). The source in force, devices, focus. Sources are replaced and
destroyed; data control devices see the selection without focus. Correct if the selection is a
source that exists and whoever should know it does.

**Text input** (`text_input_pool.cpp`, `text_input_v2.cpp`, `text_input_v3.cpp`,
`input_method_v2.cpp`; `TextInput`). Focus, enabled text inputs of two protocol versions, state
batched until a commit or `done` with a serial. Correct if the focused text inputs agree with their
clients and text is typed once.

**XDG shell** (`xdg_shell*.cpp`; `XdgShell`) and **layer shell** (`layer_shell_v1.cpp`;
`LayerShell`). A surface, its shell object and the role object point to each other and are listed by
binds; configures wait for their acknowledgement. All of these are destroyed in any order. Correct if
a surface has one role object that commits and acknowledgements reach, if nothing gone is followed,
and if acknowledgements go forward.

**Outputs** (`output.cpp`, `wl_output.cpp`, `xdg_output.cpp` and the client's `output.cpp`,
`xdgoutput.cpp`; `Outputs`) and **output configuration** (`wlr_output_*.cpp`;
`OutputConfiguration`). Published and pending state, serials of configurations. Correct if changes
are announced together, and a configuration made for an older state is cancelled and answered once.

**Plasma windows** (`plasma_window.cpp`, client: `plasmawindowmanagement.cpp`,
`plasmawindowmodel.cpp`; `PlasmaWindows`) and **virtual desktops** (`plasma_virtual_desktop.cpp` of
both libraries; `VirtualDesktops`). Objects of the compositor that are mirrored to clients, which
ask for them by id and may be late. Correct if every mirror converges.

**Pointer constraints** (`pointer_constraints_v1.cpp`; `PointerConstraints`). Locked or confined
pointers of a surface. Correct if a surface has one living constraint at a time.

**Presentation feedback** (`presentation_time.cpp`; `PresentationFeedback`). Feedbacks move from
pending over cached to current, and are locked to an output until it presents. Correct if each is
answered once.

**Buffers** (`buffer.cpp`, `wayland/buffer_manager.cpp`; `BufferUse`). Every attach makes an object
for the `wl_buffer`; the compositor keeps it as long as it likes, and images of its memory. Correct
if the client is told to reuse the buffer when nobody uses it.

**XDG foreign and activation** (`xdg_foreign_v2.cpp`, `xdg_activation_v1.cpp`; `XdgForeign`,
`XdgActivation`). Surfaces exported by one client and made parents by another; tokens that point to
seats and surfaces. Correct if nothing gone is a parent, and a token has the seat named last.

**Dma-buf** (`linux_dmabuf_v1.cpp`; `DmabufParams`) and **DRM lease** (`drm_lease_v1.cpp`;
`DrmLease`). File descriptors that change hands; connectors that come and go. Correct if every
descriptor has one owner, and every bind hears of every connector once.

**Client connection** (`src/client/connection_thread.cpp`, `event_queue.cpp`, `registry.cpp`;
`Connection`): the only threads, with a connection that may die and be set up again. **Client shm
pool** (`src/client/shm_pool.cpp`, `buffer.cpp`; `ShmPool`): memory that grows, and buffers used
again when the server releases them.

Not modelled: idle notification and inhibition, which relay a timeout and keep a list of inhibitors;
the security context, one commit and then I/O; viewports and effects beyond what is in `SurfaceSize`
and `SurfaceEffects`; appmenu, palette, decoration, plasma shell and fake input, which store or
forward single requests; the other classes of the client library, which turn events into signals.

`PROJECT.json` lists every component with its files and every hazard with the line where it bites.

## Modules

| Module | Code | Checked in | Theorems |
| --- | --- | --- | --- |
| `SurfaceTree` | tree, commits, callbacks, destruction of surfaces | `MCSurfaceTree` | `SurfaceTreeProofs` |
| `SurfaceParts` | the six modules that follow, side by side | `MCSurfaceParts` | `SurfacePartsProofs` |
| `PresentationFeedback` | feedbacks of one surface | `MCSurfaceParts` | `SurfacePartsProofs` |
| `SurfaceSize` | buffer, viewport, size and its flags | `MCSurfaceParts` | `SurfacePartsProofs` |
| `Stacking` | vectors of children and the requests that rearrange them | `MCSurfaceParts` | `SurfacePartsProofs` |
| `SurfaceEffects` | blur, contrast, shadow, slide of a surface | `MCSurfaceParts` | `SurfacePartsProofs` |
| `BufferUse` | buffer objects, releases, access to shared memory | `MCSurfaceParts` | `SurfacePartsProofs` |
| `PointerConstraints` | constraints of surfaces | `MCSurfaceParts` | `SurfacePartsProofs` |
| `StackOrder` | the order the client API promises (abstract) | `Stacking` implements it | `SurfacePartsProofs` |
| `Globals` | display, globals, nuclei, binds, clients | itself | `GlobalsProofs` |
| `XdgShell` | binds of `xdg_wm_base`, `xdg_surface`s, role objects, configures | itself | `XdgShellProofs` |
| `SeatInput` | the three modules that follow, side by side | `MCSeatInput` | `SeatInputProofs` |
| `KeyboardPool` | keyboard focus, keys, modifiers, keymap, with the clients | `MCSeatInput` | `SeatInputProofs` |
| `TouchPool` | touch pool, touch drags, and the client's `Touch` | `MCSeatInput` | `SeatInputProofs` |
| `DragPool` | drags of a seat, with the grabs that start them | `MCSeatInput` | `SeatInputProofs` |
| `SeatFocus` | the three modules that follow, side by side | `MCSeatFocus` | `SeatFocusProofs` |
| `Selection` | selection pool, data and data control devices | `MCSeatFocus` | `SeatFocusProofs` |
| `TextInput` | text input pool, text inputs, input method | `MCSeatFocus` | `SeatFocusProofs` |
| `PointerPool` | pointer focus, buttons, gestures, pointer drags | `MCSeatFocus` | `SeatFocusProofs` |
| `Objects` | the modules that follow, side by side | `MCObjects` | `ObjectsProofs`, `MirrorsProofs` |
| `XdgForeign` | exports, imports, relations | `MCObjects` | `ObjectsProofs` |
| `OutputConfiguration` | heads and configurations | `MCObjects` | `ObjectsProofs` |
| `PlasmaWindows` | windows and their mirror and model | `MCObjects` | `ObjectsProofs`, `MirrorsProofs` |
| `VirtualDesktops` | desktops and their mirror | `MCObjects` | `ObjectsProofs`, `MirrorsProofs` |
| `DrmLease` | connectors, binds, lease requests | `MCObjects` | `ObjectsProofs` |
| `DmabufParams` | planes, checks, descriptors of one import | `MCObjects` | `ObjectsProofs` |
| `Outputs` | an output, its globals and its mirror | `MCObjects` | `ObjectsProofs`, `MirrorsProofs` |
| `Connection` | connection thread, event queue, registry | `MCObjects` | `ObjectsProofs`, `MirrorsProofs` |
| `LayerShell` | layer surfaces | `MCObjects` | `ObjectsProofs` |
| `XdgActivation` | activation tokens | `MCObjects` | `ObjectsProofs` |
| `ShmPool` | shm pool and buffers of a client | `MCObjects` | `ObjectsProofs` |
| `Lists` | `find_if` and `erase`, `remove_one`, `insert` on the containers of the code | by those who use it | lemmas in `ObjectsProofs`, `MirrorsProofs` |

The state of a module is one variable per member of the class, named as there where it can be, with
a comment that says which; sets stand for vectors whose order is not observed. Each action is one
request, event, timer or call with all it triggers before the event loop is entered again: `Commit`
in `SurfaceTree` includes the whole recursion of `applyCached`, `DestroySource` in `DragPool` the
slots connected to `resourceDestroyed`, in the order Qt calls them. The header comment of a module
says what it takes from the code and what it leaves out.

An action that runs into undefined behaviour or a failed assertion sets `fault` (or `outcome`) to what
went wrong, after which nothing happens; so does a protocol error, which ends the client. Passing runs
thus cover all that happens before, and the deviations below show each of the faults being reached.
Guards that go beyond the code are assumptions about who calls it, and named: clients that keep the
protocol ask for no cycle of subsurfaces (`Nesting`) and for no second subsurface of a surface
(`CreateSubsurface`), neither of which `subcompositor.cpp:85` checks, and the compositor destroys the
heads before their manager (`DestroyManager`). This is why deadlock is not checked: a model stops at
a fault, and at the end of the bounded supply of names, where the system goes on.

`SurfaceParts`, `SeatInput`, `SeatFocus` and `Objects` put several modules side by side: one of them is
extended, the others are instances with variables of their own, and the assumptions on their constants
are repeated (`PartsAssumption`). They have no state in common, so that the `MC` modules check each in
one run: a behaviour is one of one of the parts, chosen by `part` at the start, and the state space is
the sum of theirs. A property of such a run is a conjunction over the parts it is about, and its
theorem has the specifications of these parts as its premise. Where modules do interact, they are one
module: `TouchPool` has the client's `Touch` and touch drags, `PointerPool` the pointers, gestures and
drags, `Selection` and `TextInput` each the keyboard focus that drives them, and the modules of the
client library the server side they talk to, with the messages under way.

### Surfaces

`SurfaceTree`: `pending`, `current`, `cached` are records of the fields that commits race over: a
buffer, the set of children with its flag, frame callbacks. Damage, scale, transform, regions and
effects go through the same moves and are left to other modules or out. Buffers are numbered as they
are attached, so that "content goes back in time" can be said. A surface and its `wl_subsurface`
share a name and have separate lives (`alive`, `sub`). `Nesting` is the set of parent relations that
clients ask for; it is acyclic, which the code does not check and clients that keep the protocol
guarantee. That a surface gets a second `wl_subsurface` while it has one is left out likewise.
`Visited` and `Synced` are recursive functions over the depth of the tree. The recursion
of `applyCached` is told in one go: every surface below the committed one that is synchronized merges
its cached state, and positions of all visited ones move. That the recursion visits every subsurface
once, and finds a surface at each, follows from `KidsKnowParent`.

`Stacking` keeps the vectors as sequences, and inserts and erases as `raiseChild` and `lowerChild`
do. `StackOrder` says what was promised without positions: a relation "is over". The mapping `Pairs`
turns a sequence into that relation. The refinement (`ImplementsOrder`) says that each request moves
one child and no other, and when it is shown; `PlacedAsAsked` that it is moved to where the request
says.

`SurfaceSize` and `SurfaceEffects` follow one surface that may be a subsurface, synchronized or not;
`plain`, chosen at the start, tells surfaces that never get that role, for which more holds. Sizes are
small numbers instead of pairs: containment and comparison are all the code does with them, and both
dimensions are treated alike. `SurfaceEffects` follows the code that all four effects share; an
effect object is a name, used once.

`PresentationFeedback`: `pending`, `cached`, `current` and `waiting` are the four kinds of lists a
feedback can be in; `fate` is what its client was told. `locked` tells a list that was moved away
from an empty one. `BufferUse`: an object per attach, held by the states of a surface and by the
compositor; `Recommits` decides whether clients commit again without a new attach.
`PointerConstraints` has both kinds of constraints, the two connections of a surface that both kinds
share, and one-shot constraints that are used up.

### Globals

libwayland is external: `wlGlobal` and `data` model what the code relies on, that a removed
`wl_global` still accepts binds, that it is freed with the display, and that it hands out the user
data it was given. Requests other than bind change the state of other modules; what is left of them
is whether their `Bind` still has a nucleus.

### Shells

`XdgShell` has the objects of one client, since no pointer leads from one client's to another's.
`objects` is the map `bindsObjects`; a bind enters it with its first object, which is what the
iterator captured for positioners depends on (`atEnd`). Toplevels and popups are names of one set,
`Role`: what differs is the pointer of the `xdg_surface` that holds them. A commit moves window
geometry and size hints, which are left out, and follows pointers, which is what `CommitFaults` is
about. Each pending configure is kept with the role object that sent it. `LayerShell` has the other
roles of the surface as far as `get_layer_surface` looks at them.

### Seat

In `DragPool` the Qt connections are variables (`resetting`, `ending`, `matching`, with `notifier` for
the handle that is kept), since which of them are left is what decides. `TouchPool` and `KeyboardPool`
put the pool and what clients make of the events together: events arrive in order and the client
sends nothing back that depends on them, so a step sends and delivers. Serials number presses and
touch points, so that one that ended and another with the same id are told apart. Motion, frame and
axis events change no state. `PointerPool` keeps Pointers that an earlier pool left behind, with the
surface they believe to be focused on, and the surfaces whose end still calls a pool that is gone.

`Selection` has the keyboard focus as far as it moves the selection; `told` is what each device last
heard. In `TextInput` every `commit_string` has a number, so that its deliveries can be counted.

### Mirrors and the client library

`Outputs`, `PlasmaWindows`, `VirtualDesktops` and `Connection` have a queue of events and a queue of
requests, each delivered in order, and the client's objects. What is promised then only holds when
nothing is under way (`ClientsAgree`), or of what a `done` announces (`DoneIsWhole`).
A window follows the desktops it was put on by name (`follows`), and only these leave it when they go.
In `Connection` the thread and the main thread take steps of their own; signals between them are
queued, and the application does what the tests do. `ShmPool` has the server that reads its requests
in order, and fails where the file, the memory for the buffer or the mapping does; `DmabufParams` takes sums and products modulo `Word`, as the code does modulo 2^32.

## Runs

| Run | Question | Instance | States |
| --- | --- | --- | --- |
| `surface_flat` | Is each callback and buffer held once, and does content only go forward? | a surface and a subsurface, 3 attaches, 1 callback, 2 positions | 149430 |
| `surface_nested` | Do lists of children and parents agree, is synchronized content applied with the content above it, and never torn? | a chain of three surfaces, 1 attach | 65450 |
| `surface_parts` | Do the vectors implement the promised order, does a surface keep exactly the effects that are there and wanted, is each feedback answered, each buffer released, each constraint alive? | 3 children and a stranger; 4 effects; 3 feedbacks, 2 outputs, 2 locks; 2 `wl_buffer`s, 3 objects, 2 accesses; 2 surfaces, 3 constraints | 128347 |
| `surface_size` | Is what is shown well defined, and are size changes flagged? | sizes to 2, whole and fractional | 1253354 |
| `globals` | Is no pointer left dangling, and every nucleus deleted? | 2 globals, 2 clients, 2 resources, 2 starts | 23968 |
| `seat_input` | Do clients know keys, modifiers and keymap, is down what they believe to be down, does a drag talk to living objects of its own? | 2 surfaces, 2 keyboards, a key, 2 modifiers, 2 keymaps; 3 `wl_touch`, 3 points; 2 sources, 2 offers, 2 grabs | 815625 |
| `seat_focus` | Does the selection exist and is it known, do text inputs and pointers agree with their clients, is text typed once, is no pointed-to surface kept that is gone, does a drag end with its button? | 3 surfaces, 3 sources, 2 devices, 1 control; 1 text input of each version, 1 text; 2 surfaces, 3 pointers of 2 clients, 2 gestures, 2 buttons, 3 serials | 931083 |
| `xdg_shell` | Does a surface have one role object, which is reached, are lists exact, do acknowledgements go forward? | 2 binds, surfaces, `xdg_surface`s, role objects and configures, 1 positioner | 3745983 |
| `objects` | Do mirrors converge, is each answered, told and owned once, is what is pointed to there? | see below | 1188025 |
| `surface_dropped_callback` | finding, see below | a surface and a subsurface | |
| `text_typed_twice` | finding, see below | as `seat_focus` | |
| `globals_late_request` | finding, see below | as `globals` | |

The instances in `objects`: 3 surfaces, 2 exports, 2 imports; 1 output, 2 configurations, 2 announced
sets of heads; 2 windows, 1 desktop, 5 changes; 2 desktops, 4 changes; 2 binds, 2 connectors, 1 lease
request; 2 descriptors, 2 planes, 16 for 2^32; 2 modes, positions, sizes and descriptions, versions
2 and 3, 4 changes; 2 names of globals, 2 interfaces, 2 connects, 4 changes; 1 surface, 2 layer
surfaces, 1 output, 2 configures; 2 tokens, 2 seats, 1 surface; 2 sizes of images, 3 buffers,
2 setups of a pool that starts with 1 byte and overflows at 6.

Why these are enough. The tree is checked with two surfaces for what one parent and one child do to
each other, with all data, and with three for what depends on depth: a surface between two others is
both parent and child, and every rule of the code looks one step up or down. Three attaches let the
three states of a subsurface hold three buffers. Three children are the fewest with an order of the
others to disturb. Four effects are one for each of the three states and one that is gone. Two
globals and two clients are one to act on and one to be left alone; two starts include a restart
with globals of the first time. Two sources and two grabs are a drag and the one before it, whose
connections may linger. Two of everything in `xdg_shell` are an object and another for the same
surface, or on another bind, after or beside it. Three touch points are the fewest where an id is
used again between two others. Three pointers are two of the focused client and one of another.
Changes are counted so that something can be made, changed, destroyed and made again while messages
about it are under way. Bounds that are not names (`MaxAttach`, `MaxSerials`, `MaxChanges`, ...) are
marked as such where they are declared. Objects that are only told apart by name are symmetric where
no liveness is checked.

Fairness is assumed in one place: `FairSpec` of `Globals` has weak fairness for `StaleTimeout`, as Qt
delivers a timer that has expired for as long as the event loop runs. No other action is fair:
clients and compositors owe nothing. All other properties are about safety.

Types are not among the properties of the runs. They are theorems for `SurfaceTree` and `Globals`
(`TypeCorrect`) and elsewhere the first part of the inductive invariants; `TypesOK` of a composition
holds when it is put into the configuration of its run.

### What the properties say of the hard cases

* A frame is never torn: if a surface shows a new buffer, its synchronized children show what they
  had committed in the same step (`NoTornFrame`), and at no other time (`SyncedWaitsForParent`).
* Nothing a client attached is in two states of a surface (`HeldOnce`), so that the chain of `else if`
  that forgets a destroyed buffer forgets all of it, and content never goes back (`NewestShown`).
* The bookkeeping of children survives every order of destruction (`KidsKnowParent`). That the back
  pointer never dangles (`ParentsAlive`) fails below a synchronized subsurface (see the deviations).
* A surface that is no subsurface never keeps a destroyed effect (`DeadEffectLeaves`), although its
  only listener writes to the pending state, and never loses one that is still there unless its client
  asked for that (`LiveEffectStays`), although whatever was listened to before may be destroyed at any
  time, with a new effect already shown. A listener left at the old one would take the new one away.
* A client that waits for the release of a buffer gets it exactly when nobody uses the buffer any more
  (`ReleasedWhenUnused`).
* A late bind finds a nucleus or nothing (`DataValid`), a bind finds its nucleus or knows that it is
  gone (`BindsLinked`), a removed nucleus is deleted in the end (`NucleusFreed`).
* Pointers left by a pool that is gone keep no surface that is gone (`SurfacesAlive`); a drag has its
  button pressed (`DragButtonHeld`), so that it is not stuck.
* What the client of the focused surface knows of keys, modifiers and keymap is so, however keyboards,
  capability and focus change (`KeyboardsAgree`).
* A drag that was cancelled or retargeted leaves no offer behind that could decide on the action of
  the next one (`OnlyTargetMatches`).
* A client never waits for a touch point that the pool has forgotten, under ids that are unique among
  the points that are down (`PointsAgree`), and a touch drag always has a point to be dropped by
  (`DragHeld`).
* However many binds and `xdg_surface`s a client makes for a surface, and whatever it destroys, the
  surface has one role object to which the pointers lead (`OneRole`).
* When all messages have arrived the client's windows, desktops, outputs and globals are those of the
  server (`ClientsAgree`), although objects are destroyed before the client asked for them.

## Disagreements between code and documentation

Three runs end in a violation on purpose.

* `surface_dropped_callback` (`NoCallbackDropped`): a synchronized subsurface that commits twice before
  its parent does loses the frame callbacks (and effects) of the first commit, since
  `subcompositor.cpp:177` replaces the cached state whatever is in it.
* `text_typed_twice` (`TextOnce`): a commit of the input method that is refused is not to be applied,
  "Reset pending to current state and wait for next commit." (`input_method_v2.cpp:117`); current
  still has the text of the commit before, which the next one then types again.
* `globals_late_request` (`LateRequestIgnored`): requests on a global that the compositor has removed are
  to be ignored, "The global might be destroyed already on the compositor side." (`wayland/global.h:289`).
  The question is asked through the nucleus, which the bind loses five seconds after the removal; then
  the assertion of `wayland/bind.h:66` fails.

Other deviations are definitions at the end of the modules, each with the line or comment that it
takes at its word in front of it. Each of them fails. To see one, take the configuration of the run,
drop its `INVARIANTS`, `PROPERTIES` and `SYMMETRY`, and give it the one name as an invariant, or as a
property where it is marked (P).

| Configuration | Definition | What happens |
| --- | --- | --- |
| `SurfaceTreeFlat` | `InertWithoutParent` | `set_desync` on a subsurface whose parent is gone follows a null pointer |
| | `CallbacksDieWithSurface` | callbacks in the cached state outlive the surface |
| | `LastPositionWins` | asking for the position in force does not cancel a scheduled one (`subcompositor.cpp:204`), against "Sets the position in relative coordinates to the parent surface to @p pos." (`src/client/subsurface.h:99`) |
| `SurfaceTreeNested` | `ParentsAlive` | a child that is only in the cached list is not told when the parent goes |
| | `NewestShown` (P), `MaxAttach = 2` | a surface below two others goes back to an older commit that was still cached |
| | `DesyncAppliesCache` | a nested subsurface keeps a cache that an old commit would apply later |
| `SurfaceSize` (run `surface_size`) | `ViewportPresent` | a cached source rectangle is applied after its viewport is gone |
| | `EverySizeFlagged` (P) | taking a source rectangle away changes the size without a flag |
| `SurfaceParts` | `NoFreedEffect` | an effect destroyed while pending is used by the commit |
| | `OtherPendingKept` (P) | destroying the current effect wipes another that is pending |
| | `AccessAlive` | shared memory is read after its buffer is gone |
| | `ReleasedWhenUnused`, `Recommits = TRUE` | a commit without attach after a release shows a buffer that the client draws into |
| `Globals` | `TerminateReleasesAll` | a stale nucleus is not told that its `wl_global` was freed |
| `XdgShell` | `NothingFreed` | an `xdg_surface` keeps pointers to a destroyed role object and surface, and a bind's first positioner is erased through the end iterator |
| | `OwnConfigures` (P) | a role object is told of the acknowledgement of its predecessor's configures |
| `SeatInput` | `NoStuckKeys` | a keyboard that outlives the capability keeps its keys down |
| | `SourceToMatch` | after a drop the offer stays connected, and new actions set on it make `match_actions` follow the null source |
| | `OfferAlive` | an offer destroyed by its client is still used for the source's actions |
| | `OwnSourceEndsDrag` (P) | the end of an earlier drag's source resets the running drag |
| | `PerformedWhenDropped` | a cancelled drag ("cancel the drag, don't drop.", `touch_pool.cpp:201`) tells the source "The user performed the drop action." (`src/client/datasource.h:117`) |
| | `DownMeansDown` | after a cancel the client's points still say that they are down |
| | `PointerPoolPresent` | a touch drag on a seat without pointer fails an assertion |
| `SeatFocus` | `SelectionNotCancelled` | a source set with one device and then dropped by another is cancelled and stays in force |
| | `SelectionKnownAlways` | a client whose focused surface is destroyed and that gets the focus with another one is not sent the selection again |
| | `NoSelectionWithoutFocus` | a device still hears of a selection when its client has no focus |
| | `OthersSelectionKept` (P) | the end of a replaced source takes the selection in force along |
| | `FollowsKeyboard` | the text input focus stays behind the keyboard focus |
| | `ActivatedWhenEnabled`, `ActiveMeansEnabled` | an input method made while an enabled text input has the focus is not activated; one stays active when the text input is destroyed |
| | `TypesIntoEnabled` (P) | text reaches text inputs that are disabled |
| | `GesturesPaired` | a gesture whose surface goes is never ended for its object |
| | `PoolAlive` | the surface of a gesture calls the pool that went with the capability |
| | `DragButtonHeld`, `SharedButtons = TRUE` | a button pressed on a second mouse takes the serial the drag waits for |
| `Objects` | `SourceThere`, `ExportAlive`, `ParentKept` | a child set again after the export went follows a null source; an export outlives its surface and can still be imported; an import that takes another child leaves the child of another import without parent |
| | `HeadsPresent`, `ManagerAlive` | configurations follow heads that are gone, also those their client released, and a manager that is null or freed |
| | `CancelledOnce`, `Config = {c1, c2, c3}` | the loop over configurations that take themselves out cancels one twice |
| | `NullParentIsToplevel`, `NullMeansNoneActive` | null also stands for a parent the client has not asked for yet; no active window is reported after one of two active windows goes |
| | `ObjectsKnown` | a request names a desktop that is gone |
| | `DesktopsExist` | "if the desktop dies, remove it from or list" (`plasma_window.cpp:715`) is done for desktops entered by name, not for those entered by leaving all desktops (`plasma_window.cpp:650`) |
| | `NoNullConnector`, `LeasedAlive` (P) | a request follows, and a lease has, a connector that is gone |
| | `FirstPlaneFits` | the checks of a plane's size wrap around |
| | `ModesKnown`, `XdgOutputThere` | modes added after the bind are not sent; an output enabled before the manager was made has no logical output to look up |
| | `DisplayAlive`, `NotMisled` | a freed display is used; a protocol error is reported for another error |
| | `EstablishedHasDisplay`, `Careful = FALSE` | a failed attempt to connect leaves an established connection without display |
| | `RegistryKnows`, `Reuse = TRUE` | a registry that is set up again still has the globals of before |
| | `HearsCommits`, `LayerOutputThere` | a layer surface that is a subsurface too hears of no commit; the output it was asked for may be gone |
| | `TokenSurfaceAlive` | a token keeps a surface that is gone |
| | `NoOverflow` | a pool grows until its size wraps around |
| | `MappingNoticed` | a pool whose memory could not be mapped passes for valid |
| | `ReleasedMeansFree`, `Redraws = TRUE` | a buffer used again before its release is free when the earlier release arrives |

## Proofs

All theorems hold for every value of the constants that satisfies the assumptions stated in the
modules, mostly that names are not the null pointer and that bounds are numbers.

* `SurfaceTreeProofs`. `TypeCorrect`: one step per action; the lemmas say that merging, clearing and
  the update of one surface's lists stay in the types. `KidsCorrect`: `KidsKnowParent` is not
  inductive, since a surface destroyed and created again under the same name must not bring back old
  children, and since the cached list counts only while the `wl_subsurface` exists. `TreeInv` states
  the link for each of the three lists (`CurrentLinked`, `PendingLinked`, `CachedLinked`) and that
  destroyed surfaces have no children (`DeadBare`). A commit is the step that needs `ApplyTree`:
  whatever set of subsurfaces it visits, the new lists are old lists of the same surface.
  `HeldCorrect`: `HeldInv` says `HeldOnce` surface by surface (`Apart`), also of surfaces that are
  gone, and that everything held is known: no buffer is newer than the last one attached, and every
  callback belongs to the surface that has it. What is attached or asked for next is therefore new.
  `MovedApart` says it of one surface whose states move on, `Applied` that a commit does no more.
* `GlobalsProofs`: `TypeCorrect`, `BindsLinkedCorrect` and `DataValidCorrect` from one invariant,
  `Inv`: types, `BindsLinked` and that only nuclei with a `wl_global` are its user data
  (`DataNative`). `DataValid` is too weak by itself: `~Nucleus` clears the user data only if it still
  has its `wl_global`. The two ways binds are unlinked, by their resource (`ResourcesGone`) and by
  their nucleus (`NucleiGone`), are lemmas used by all actions that do either.
* `XdgShellProofs`: `OneRoleCorrect` and `ListsExactCorrect`, from what is known of names that were
  never used (`NamesUsed`) and of the objects of a bind (`Listed`). `NewerPendingCorrect`: `QueuesInv`
  orders the whole queue, not only neighbours, since an acknowledgement takes any number of configures
  off the front, and no serial in it is newer than the last one sent.
* `SurfacePartsProofs`. `FeedbackHeldCorrect`: feedback by feedback (`HeldBy`), from which the
  counting follows. `LiveEffectStaysCorrect` and `DeadEffectLeavesCorrect` share `EffectsInv`:
  what is listened to is what is shown, and what is pending is what the client asked for unless the
  shown effect has gone.
  `ConstraintLiveCorrect`: of each surface (`LiveOn`), which connections there are and to what.
  `ReleasedWhenUnusedCorrect` assumes that no `wl_buffer` is committed again while it is in use
  (`~Recommits`; the run makes the same choice): of two buffer objects in use, each then has its own.
  `AccessCountedCorrect` counts images as a set of pairs (`ImagesOf`) that one call makes larger or
  smaller by one. `ImplementsOrderCorrect` is the refinement of `StackOrder`: initial states map to
  initial states, each step to a step or a stutter. A vector names each child once (`Once`), and
  `InsertAt`, `RemoveFirst` and the search for a sibling are then moves of the order of pairs
  (`IsMove`); `PlacedAsAskedCorrect` uses the same lemmas. `SourceWellDefinedCorrect` and
  `SizeFlaggedCorrect` need that a surface without a viewport has no source rectangle, or loses it
  with the next commit (`SizeInv`).
* `SeatInputProofs`. `KeyboardsAgreeCorrect`: a keyboard that is not flagged has the keymap of the
  pool (`KeymapsTold`): only then need it not be sent with the focus. `TargetAliveCorrect` and
  `OnlyTargetMatchesCorrect`: a source that can end a drag is one whose destruction resets the drag,
  and all that is sent to a target goes with its surface (`DragInv`). `PointsAgreeCorrect` and
  `DragHeldCorrect`: ids are below the number of points there have been, so that the next one is new
  (`TouchInv`).
* `SeatFocusProofs`. `SelectionAliveCorrect` and `SelectionKnownCorrect`: devices without focus go by
  the selection in force or by none (`NothingStale`), so that what they hear next is enough.
  `TextFocusAgreesCorrect`: the lists hold text inputs of their version (`FocusInv`).
  `TypedOnceCorrect`: a string pending with its flag has reached no one (`TypedInv`).
  `PointersAgreeCorrect` is inductive with the types. `SurfacesAliveCorrect` needs that a drag starts on
  the focused surface, which nothing but its end takes the focus from, and that a Pointer is only ever
  focused on a surface of its own client, with which it goes (`PointersAlive`). `DragButtonHeldCorrect`
  assumes that buttons are not shared; with shared ones it is a deviation.
* `ObjectsProofs`, one section per module.
  - `RelationAliveCorrect`: besides the relations, the invariant keeps what an import can still make a
    parent of (`Listened`) and that unused names have no relation (`Unused`).
  - `ToldOnceCorrect`: whoever comes second, bind or connector, finds all of the first (`ToldAll`), and
    nobody is told of a connector before it is there (`ToldNone`).
  - `AnswersInOrderCorrect`: what waits is fresh and unanswered (`ConfigurationInv`), serials that wait
    are in order (`SerialInv`). An announcement that finds more than two configurations waiting fails an
    assertion, which ends the run (`CancelledOnce`, a deviation above); with one or two its loop visits
    each of them once (`AllVisited`).
  - `OneOwnerCorrect`: descriptors (`ParamsInv`), slots of a pool in one place (`PlaceInv`) and apart
    (`SlotInv`), roles of surfaces linked both ways (`LinkInv`). It assumes `~Redraws`, that a client does
    not draw what it keeps with `setUsed`.
  - `PointedToLivesCorrect`: `WindowInv`, `ConnectionInv`, `LinkInv` and `TokenInv`. It assumes that the
    application connects only when it has no connection and makes a new registry for each one (`Careful`,
    `~Reuse`); a deviation shows what happens otherwise.
  - `DoneIsWholeCorrect`: the events under way, replayed on what the client has, lead through states in
    which each event fits (`Told`) to one that is what was published (`Ready`).
* `MirrorsProofs`: `ClientsAgreeCorrect`, that a client with nothing under way sees what the server has.
  The property says nothing of states in which something is under way, so that it is far from
  inductive: each of its four parts follows from an invariant that says what the messages in the queues
  will still do.
  - Windows (`MirrorInv`). A window of the server is announced to the client, or asked for by it, or bound
    and then a row of the client's model or about to be; one that the server has no more was unmapped or
    will be (`Kept`). Whether it is active, its desktops and its parent are told by messages of which the
    last counts: every message that says otherwise is followed by one that says what is so, and if there is
    none the client knows it already (`Settles`).
  - Desktops (`DeskInv`). Their order matters, so that no single message tells the state. The events under
    way, read one after the other, lead from the list of the client to that of the compositor, each of them
    fitting the list it meets (`Leads`). An object of the list goes with its desktop, or waits for an answer
    to its request, or is told of changes and then settles as above (`Followed`); an id may be used again,
    while the object of the desktop that had it before is still in the list.
  - Outputs (`OutputInv`, in `ObjectsProofs`): what the events under way lead to is what was published.
  - Globals (`KnowsInv`): a name is announced once and withdrawn once, in this order, and what the registry
    has heard together with the signals of the living connection is what the server has. This is where
    `Careful` and `~Reuse` are needed, as for `PointedToLivesCorrect`: a registry that is set up again still
    has the globals of before, which is a deviation above.

`SurfaceTreeProofs` also has the properties that hold up and down the tree. `WaitsCorrect` and
`WholeCorrect` are about `Synced` and `Visited`, which are recursive functions: induction over the depth
is done on sets of numbers (a set with 0 that has with each number the next one), and the equations of
the recursion are derived from the existence of iterates (`Iterated`). `Nesting` has no cycles, so that
it gives each surface a rank (`Ranks`); all that a commit visits is below the surface committed, and
what is visited goes with all of its synchronized children (`Shows`, `ShowsWhole`). `NewestCorrect` holds
for subsurfaces one level deep (`Flat`): with the next level, `DesyncAppliesCache` fails, and with it
this one.

Only model-checked: the liveness property `NucleusFreed`, since fairness needs `ENABLED`, which TLAPS
does not support. Every other property of a passing run is stated by a theorem. Where a theorem has an
assumption that the run's configuration also makes (`~Recommits`, `~Redraws`, `Careful`, `~Reuse`,
`Flat`, buttons that are not shared), the section above says why, and the deviations show what happens
without it.

## Not modelled

Marshalling and sockets (libwayland and generated code), file descriptors and transferred data,
pixel formats, XML protocol files, and classes that only forward an event. Within modelled parts:
damage, scale, transform, regions and the outputs of a surface; the drag icon; the events sent to
binds; the visibility filter of globals; motion and axes; the events of pointer emulation by touch;
pings, geometry and the data of positioners of the XDG shell; the values configured for an output.
The notes of the components in `PROJECT.json` say it part by part.

About half of the repository is outside of this: the client library turns requests into calls and
events into signals, one function each, and the tests and protocol files describe rather than
implement. What the modules map is the bookkeeping, which is a small share of the lines.

## What is left

* An `Idle` module, for the timers of `idle_notify_v1.cpp` against inhibition.
* Size hints and window geometry of the XDG shell, pings with their timers, popups' grabs.
* One seat composed of its pools: each is checked with the others' calls as free actions.
