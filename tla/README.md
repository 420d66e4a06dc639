# natwm: verification

TLA+ models of natwm, a window manager for X11 written in C, model-checked
with TLC and, in part, proved with TLAPS. Paths below are relative to the
repository. `PROJECT.json` lists the components, the runs, the definitions with
the source lines they model, the hazards and the findings.

    tlc -config MCNatwm_structure.cfg MCNatwm      # a run
    tlapm NatwmProofs.tla                          # the proofs of a module

## The system

natwm is one process. `main` sets it up step by step, starts one thread that
runs `wm_event_loop`, and waits for it. The thread takes X events one at a time
and changes one structure, `struct natwm_state`; nothing else runs while a
handler does. What is hard is therefore not the interleaving of threads but that
of natwm with the X server, the X clients and the user: events are about the
past when they are handled, and natwm's own requests produce events too.

| component | state | operations | hard about it | correct when |
|---|---|---|---|---|
| workspaces, clients, focus (`core/workspace.c`, `core/client.c`) | the list of clients of each workspace, `active_client`, `is_visible`, `is_focused`; `client_map`; the flags of `struct client` | map, unmap and destroy notifies, map and configure requests, `_NET_ACTIVE_WINDOW`, `_NET_WM_DESKTOP`, `_NET_CURRENT_DESKTOP`, a click | notifies that are handled after later switches; nested calls that change the same flags; the same fact kept in several places | lists, map and `active_client` agree; one workspace is focused and it is on a monitor; when natwm has caught up, the screen and the keyboard are as the structures say |
| monitors (`core/monitor.c`, `core/randr.c`, `core/xinerama.c`) | the list of monitors, the workspace of each, its rectangle and offsets | finding them, giving out offsets and workspaces, swapping, clamping a rectangle | 16-bit arithmetic; offsets that do not fit; more monitors than workspaces; replies that do not come | no workspace on two monitors; offsets and workspaces given out in one order; clients within the margins |
| mouse (`core/button.c`) | `struct button_state`, the grabs in the server | press, motion and release of a drag or a resize; a click that focuses; bindings for every combination of lock keys | the server's grab and natwm's own record of it part; windows move and vanish meanwhile; keyboards change | a gesture acts on its own client, follows the pointer and ends; a press is what it was meant to be |
| process and event loop (`natwm/natwm.c`) | `status`, the thread, the connection | setup, signals, `pselect`, `xcb_poll_for_event`, exit | signals at any moment; events that xcb has already read; a closed connection | it stops when told to, handles what was sent, and says how it ended |
| setting up and closing (`natwm/natwm.c`, `core/state.c`, `common/theme.c`, `core/ewmh.c`) | what is allocated, and which pointers are set | a call after another, each of which may fail; `natwm_state_destroy` | an error at any point; memory from `malloc` | everything is returned, nothing else is touched; the first state is the promised one |
| hash map (`common/map.c`) | the table | insert, find, delete, resize | collisions, wrap-around, hashes that change | it is a dictionary |
| list (`common/list.c`) | nodes and their links | insert, remove, move, clear | nodes that are taken out and put back | the links are a list in the order the calls say |
| stack (`common/stack.c`) | items and their links | push, pop, enqueue, dequeue, peek | items that are taken out and put back | it is a double-ended queue |
| configuration (`core/config/`) | the position in the file, variables, items | one line after another, nested arrays over several lines | the position after a value that several readers have moved; strings that change owner from call to call | what is read is what the file means, and what was allocated for it is freed once |
| strings, files, logging | none | conversions, paths | | see *Not modelled* |

They meet in `event_handle`, which dispatches to the handlers of clients, monitors
and the mouse; the clients are kept in lists and a hash map; the configuration is
read once, before the loop, into a hash map, and its values are used when monitors,
workspaces and the theme are set up.

## The modules

| module | models | its variables are |
|---|---|---|
| `Desktop` | what a user is promised about workspaces and monitors (abstract) | the current workspace, the workspace on each monitor, that of each window |
| `Natwm` | `workspace.c`, `client.c`, the focus click of `button.c`, the X server as far as these use it | one record `state`: `natwm_state` and the server |
| `MainLoop` | `main`, `wm_event_loop`, the signal handler, the socket and xcb's queue | the stage of `main`, the place of the thread, `status`, the connection, counts of events |
| `Placement` | the rectangle and the border of a client: `monitor_clamp_client_rect`, drag, resize, configure, fullscreen, focus, switches and sends, notifies | offsets, `client->rect`, flags, the monitor and the focus of its workspace, the monitor of the gesture, the window on the screen |
| `Pointer` | gestures in `button.c` and `event.c`, the server's grab, events in flight | pointer, buttons, grab, queue, `button_state` |
| `Bindings` | the grabs of `button.c` and the lock keys | the keyboard, the grabs, `modifiers`, the clients with `is_focused`, `active_client` |
| `Setup` | `main` up to the event loop, `state.c`, and the way back | the next call, one record `state`: what is allocated, the pointers, the monitors |
| `Memory`, `Theme`, `Screens` | parts of `Setup`: allocation and release (also for `ConfigMemory`); `theme.c`; `monitor.c`, `randr.c` and `xinerama.c` | none |
| `Dictionary` | what a map promises (abstract) | the content |
| `HashMap` | `map.c` | the table, the last answer |
| `Walks` | `LIST_FOR_EACH` and `STACK_FOR_EACH` | none |
| `LinkedList` | `list.c` | the links, the nodes inside, the place of `clear_list` |
| `Deque` | what `stack.h` offers (abstract) | the content, what was taken out |
| `Stack` | `stack.c` | the links, the length, the items outside |
| `Null` | `NULL`, where a proof is about two modules that have it | none |
| `ConfigValues` | the values and maps of the configuration, for the next four | none |
| `ConfigFile` | a configuration file as its author means it, and as text (reference) | none |
| `Parser` | `parser.c` and `config_parse`, of any text | the text, the position, variables, items |
| `Config` | the same, of the text of a `ConfigFile` | the file that is meant |
| `ConfigMemory` | the same and `value.c`: who frees what | the line, one record `state`: what is allocated, the entries of the maps |

`MCx` gives the constants of `x` their values; `xProofs` has theorems about `x`, and
`ContainersProofs` those about `LinkedList` and `Stack`, which `Containers` sets side by
side; `SetupProofs` also has those about `Parser`.
`NatwmCalm` adds to `Natwm` a history, whether natwm has so far kept up with
its events, and `PointerLag` one to `Pointer`, whether it is behind the pointer.
`MCContainers` runs both, `MCConfig` `Config` and `ConfigMemory`. Operators and actions carry the names of the C functions they model.

**Natwm.** A C function that changes the state is an operator from the state
before the call to the one after it, so nested calls compose as in the code; a
handler with everything it calls is one action. natwm's requests take effect in
the server at once, and the events they cause go to the end of `queue`. Only
events that depend on the state of the server at the moment they are produced
travel through the queue: notifies and clicks. Client messages, map and configure
requests are handled at any moment, which stands for one that was sent before
everything in the queue; this loses no order of handling, because such a message
could have been sent at that earlier moment. `FrontState` keeps map requests to
the windows that were unmapped then. `Remaps` counts second structures for a
window that is mapped again while still registered; it is 0 in the runs (see
*Statements found false*) and in the second part of `NatwmProofs`, while the first
part admits every value.

**MainLoop.** Events are counted, not looked at. xcb reads all that is on the
socket whenever it waits for a reply or polls, and `pselect` sees only the
socket. The server may close the connection at any step, and as long as it does not,
there is always another event to come: `EventBound` limits those on the way at once.

**Placement.** One dimension stands for both, which the code treats alike and
separately. Conversions to `int16_t` and `uint16_t` are modelled by what they do.
`Leftovers` is what `malloc` may have left in the offsets of a monitor the option
does not set. The border is drawn outside of the window; a fullscreen client has
none, and one without the focus, or off screen, the unfocused width. A window
without a size is refused by the server, which keeps what it had. An action is what
a handler does to this client: `ChangeMonitor` is `workspace_change_monitor`, which
hides the client, shows it, or does one after the other, and may focus it in the end;
`Send` is `workspace_list_send_to_workspace`. Of the workspace there are its monitor
and its `is_focused` (`active`), which a client that hid or is not the active one may
survive with its own flag set. `held` is the monitor whose rectangle `button_state`
has kept since the press: a drag shows the client there, whatever has become of it
since. The notifies that set `CLIENT_HIDDEN` and end `CLIENT_OFF_SCREEN` may come at
any time, from this showing of the client or an earlier one. Two properties except
a case by name: a motion that comes after the client has left the monitor of the press
(`LateMotion`, client.c:581), and a map notify that finds `is_focused` on a workspace
without the focus, which is not redrawn (`FlagLeftBehind`, client.c:557).

**Pointer.** One monitor at the origin, narrower than the screen, one dimension, the
modifier held. A member of `Situations` says which clients there are, what happens
besides plain gestures (a second button, fullscreen, hidden or destroyed windows) and
how far natwm may be behind. A dereference of what is not there is a `fault`,
and the model ends with it.

**Bindings.** A mask is the set of its bits. An event is handled at once: what
happens while it waits is the subject of `Natwm` and `Pointer`. `Focus` is any number of
`client_set_unfocused` and `client_set_focused`; who is unfocused differs.
`focus_client` (`Activate`) does so to `active_client`, `client_focus_window`
(`Refocus`) to nobody of the same workspace, so that several clients may have the flag
and no grab for a click. `Remap` exchanges the keyboard, of which natwm takes no notice; `modifiers` may be missing, since
`button_state_create` goes on without them.

**Setup.** A call is the set of its outcomes, in `Memory`'s terms: `Then` is the next
statement, `OrElse` what `goto handle_error` leads to. Every allocation may fail and
every reply may be missing, after which the connection stays lost. Following a
pointer that nobody has written, or one to what has been freed, is a fault; so is a
reply that is used and is not there. Outputs, the options and the extension are
chosen at the start. `list_insert` puts a monitor before those that are there, which
`At` accounts for. While natwm runs only what the way back depends on happens: a
client on each workspace, and the resize helper.

**HashMap.** A member of `Uses` is one of the two uses of maps. The hash is a constant,
a set of hashes for each key: the size of a key of `client_map` is that of a pointer
(`workspace.c`), so the hash of a window depends on the four bytes after it. A deleted
slot and one never used are the same, as no branch tells them apart. A deletion that
leaves the table is a `fault`, and so is a resize that waits for the lock an earlier one
has kept. Memory may run out in an insertion into `client_map`, whose callers go on;
the configuration gives up its map then, which is in `ConfigMemory`.

**Stack.** Items are created when they are put in; an item that has been taken out
may be put in again. What comes after one went in with a link it still had is not
looked at.

**Parser, Config.** One round of the loop of `config_parse` is one action. Values are
parsed with the position threaded through, as `parser_parse_array` moves it, by a
function of the depth of the arrays they may have (`ParseValue`): a value is never
deeper than the file is long, since each array has two brackets, so that starting there
is the recursion of the code. `Config` chooses the text: `ConfigFile` states separately what a file means and how it is written,
so that the parser is compared with a definition that knows nothing of positions.
`WellFormed` says which files may be expected to be read: with arrays laid out as the
comments show them, and no comma or bracket in a string written in an array.
A file with or without its final line end is an input. Which of two values of a
name is found after it is defined twice is left open, as the hash map decides it.

**ConfigMemory.** The files are those of `ConfigFile`, with values that cannot be read.
A block has a name and a place, the line and the indices of an item in its arrays, so that
freeing one twice shows. Each function is the set of its outcomes, as in `Setup`, and a
line is one action. Every allocation may fail; `short` remembers that one has. What is
read, and where the parser is, is the business of `Parser`.

## The runs

| run | shows | instance |
|---|---|---|
| `structure` | `OneFocusedWorkspace`, `MonitorsAgree`, `RegistryAgrees`, `ActiveOnList`, `FocusGrab`, `Forgotten` under every message | 2 windows, 3 workspaces, 2 monitors, requests while at most 1 event is pending; half a million states |
| `settling` | `FocusedWorkspaceShown`, `ScreensSettle`, `FocusSettles`, `SwitchHidesNothing`, and `ImplementsDesktop`: the refinement of `Desktop` | the same with a dock, without `_NET_ACTIVE_WINDOW`; a million states |
| `click` | violated: `ClickReleased` | 2 windows, 1 monitor |
| `main_loop` | `ExitTells`, `NothingStranded`, `StopEnds`, `EventsHandled`, `LossEnds` | 4 events on the way at once, without a last one |
| `placement` | `MarginsKept`, `GesturesAgree`, `BorderTells` | 2 monitors of different length with margins, sizes smaller and larger than the monitor, two widths, drags up to 3 off the edge; 194 thousand states |
| `pointer` | `StateTogether`; with one button and clients that stay `NoFault`, `GrabbedHeld`, `Follows`, `GestureEnds` | 2 clients 2 events behind, 1 client 3 events behind, 1 client with everything allowed; half a million states |
| `hash_map` | `NoKeyLost`, of which `NoGap` is a part, and `ImplementsDictionary`: the refinement of `Dictionary` | 4 windows with several hashes; 4 strings that collide at the end of the table, inserted again and again up to 6 entries |
| `containers` | `Linked`, `KeepsOrder`, `ClearsAll`, and `StackIsDeque`: the refinement of `Deque` | 5 nodes, 3 items |
| `config` | `ReadAsMeant`, `StaysInside`, and `OneOwner`, which is `FreedOnce`, `ItemsOutlive` and `LeftByBlanks` | 5444 files of up to three lines; 268 of which every allocation may fail |
| `bindings` | `OwnClicks`, `PressIsMeant` | 2 clients, 6 keyboards, 5 chords, 4 lock keys |
| `setup` | `OnlyThemeIsWild`, `Returned`, `OwnOffsets`, `NamesFit`, `BeginsAsPromised` | 2 workspaces, up to 3 outputs, every extension and every option for the offsets; 400 thousand states |
| `theme` | violated: `ErrorCloses` | 1 output, no options |

Every property is accompanied by a mutant, a definition of the code with a
plausible mistake, for which TLC finds it violated. Mutants stand before the
definition they change and say so.

**The bounds.** Two windows are enough for two clients to compete for a
workspace, its focus and the head of a list. Three workspaces on two monitors
are the least where a workspace may be shown here, shown elsewhere, or hidden,
so that a switch may swap, replace or do nothing. A `QueueBound` of 1 lets
requests in while an event is pending; one request may cause several more
(a swap unmaps and maps both workspaces), so longer queues occur. Windows other
than docks are interchangeable: symmetry is used for invariants and for the
safety part of `Desktop`, never for liveness. Four events in `MainLoop` allow
some on the socket, some in xcb's queue and one in a handler. In `Placement`
lengths are small, but the arithmetic wraps where the code's does because sizes
become negative. In `Pointer` two events behind are needed for a client to run ahead
of the pointer, three for two gestures to be in the queue. The keyboards of
`Bindings` are the usual one and those where a lock key has no modifier, two, one of
another lock key, or that of natwm. With two workspaces and three monitors `Setup`
has fewer, as many and more of the one than of the other, and one of two monitors may
be without an entry. In `HashMap` two resizes are reached, and the hashes lie around
the end of the tables of 4 and 8 so that probing and shifting wrap around. Five
nodes allow one to be moved between two others on either side. In `Config` three
lines allow a variable to be defined, used by another and used by an item, with
arrays over several lines before and after; in `ConfigMemory` also for a third item, with
which a map grows, and a nested array fails with values, strings and arrays around it.

**Fairness.** `WF(Handle)` in `Pointer` (and on its history in `PointerLag`), which
`GestureEnds` needs, and `WF(EventLoop)` in `Natwm`, where no property of a run needs
it (`Forgotten` and what settles are invariants of the states whose events are
handled): `wm_event_loop` returns to its connection whatever a handler answers
(`natwm.c:145-201`). `MainLoop` shows that this is right, from weak fairness of the
two threads and the timeout of `pselect` (25 ms) alone: `EventsHandled` is
checked, not assumed. Both it and `StopEnds` allow for a thread that never leaves its
inner loop, because each time it polls there is another event (`NeverIdle`): the code
reads `status` only outside of that loop (`natwm.c:152`, `natwm.c:175`), and without
this exception `StopEnds` is false. Nothing is assumed fair of the server, the clients, the user
or signals. No run has a state constraint. Deadlock is switched off where the
system may stop: `MainLoop` after its exit, `Config` at the end of its file,
`HashMap` and `Pointer` after a fault, `ConfigMemory` at its end, `Setup` when the process has exited, `Stack`
after an item went in with a link, and `click`, where windows get destroyed for good.

## What is proved

For every value of the constants that the assumptions named in the modules
admit:

- `NatwmProofs`, first part: `TypeCorrect`, `FocusedOnce`, `ScreensAgree`. The invariant is
  `TypeOK /\ OneFocusedWorkspace /\ MonitorsAgree`. The three are needed together:
  a swap of two workspaces keeps `MonitorsAgree` only if `active_index` is a
  workspace, and `workspace_set_focused` keeps the flag single only if it was.
  There is a lemma for each C function, saying that it keeps the type and what
  it does to the parts the other two speak of; the actions follow. The proof covers
  `activate`, `Remaps` and any queue. Then `Desktop` by itself (`Own`): `AlwaysShown`,
  that the current workspace is always on a monitor, and `NeverTwice`, that no workspace
  is on two. Each needs the other (`Switch`), so both are one invariant.
- `NatwmProofs`, second part, on top of the first. The structure of a window is unique
  (`Remaps = 0`): with two of them, which the code tells apart by the window only,
  the lists and the map part. In this order:
  - `ListsAgree`, `ActiveNeverDangles`, `GrabFollowsFocus`, `DestroyedForgotten`, from
    the invariant `LInv`. No list has a client twice, a client is on the list of
    the workspace `client_map` gives its window and is allocated, `active_client` is
    one of them, the grabs follow `is_focused`, and a window that is gone and still
    known has its `DestroyNotify` in the queue. None of these is inductive alone:
    to take a client off a list needs to know where it is, to free it that nobody
    else has it. There is a lemma for each C function, from a sound state to a sound
    one; in the middle of a change of focus one client's grab may be wrong
    (`SoundBut`).
  - `KeepsPromises`, the refinement of `Desktop`: every handler, as a whole, is a
    `Switch`, `Manage`, `Forget` or `Move` of it, or changes nothing there
    (`Promised`). It and what follows from it suppose that no other program
    activates windows (`"activate" \notin Messages`), which may focus a workspace that
    is on no monitor: the statement of `client.c:300` below. Then also `FocusOnScreen`.
  - `ScreensSettled`, for which the invariant must say what is true before natwm has
    caught up (`Screened`): a client that belongs on a monitor and still has
    `CLIENT_OFF_SCREEN` has a `MapNotify` coming, one whose window is unmapped an
    `UnmapNotify` with no `MapNotify` behind it, and one that belongs on none is
    flagged and not mapped. So a notify from before a switch cannot undo it.
  - `FocusSettled`, from `Attentive`: the keyboard is with the active client of the
    focused workspace as soon as its window is mapped, and with the root window if
    there is none, in which case every client there is hidden.
    `workspace_reset_focus` and `workspace_change_monitor` establish it, removing and
    moving a client on another workspace keep it.
  - `SwitchesHideNothing`, from `Tame`: in calm every `UnmapNotify` in the queue is of a
    window whose clients are all flagged `CLIENT_OFF_SCREEN`, or that is gone, and no
    `MapNotify` of a window, which clears the flag, comes before its `UnmapNotify`. The
    second part needs the calm: a switch that overtakes a `MapNotify` breaks it
    (`HidesTame` asks for a queue without one, `NoMaps`).
- `MainLoopProofs`: `TypeCorrect`, `ExitCodeTells`, `NoneStranded`, from
  `TypeOK /\ Reasons /\ QueueKept`: why a stopped thread has stopped, and that the
  queue of xcb is empty wherever the thread has left the inner loop.
- `PlacementProofs`: `MarginsRespected`, `BordersTell`, `NoGrowth`,
  from lemmas on `Clamp` and `Bordered` over all integers of 16 bits, for any
  monitors, offsets and widths. `Border`, that the window has the width of the
  client's state, is preserved by each action on its own once the types are known:
  each handler redraws exactly when the width changes, save for the notify it excepts.
  So is `NeverApart`, that gestures, focus, switches and sends leave the rectangle natwm
  records and the window as equal as they were, late motions excepted: `update_theme` cuts the one by what it cuts the other, and
  what is shown is `On` of the new rectangle unless the server refuses it.
- `PointerProofs`: `Together` and `TypeCorrect`, in every situation, and for one button
  and clients that stay `NothingMissing` and `OwnClientOnly`, for any number of
  clients and events behind. Their invariant reads the queue from its head: a press, a
  motion and a release of a window follow each other there as in a gesture, the first
  of them continues what `button_state` has, and the last is what the server's grab
  is now (`Leads`). An event that arrives lengthens this chain, and handling one
  shortens it. `UnderPointer`, that a dragged window ends under the pointer, adds
  `UpToDate`, about the first button while natwm is not behind: at most two events are
  queued, the last was measured from where pointer and window still are, and before it
  is nothing but the press that began the gesture. A motion outside the monitor is
  ignored, so the conclusion waits for the pointer to come back.
- `BindingsProofs`: `FocusedKeepsClicks`, `LocksDoNotMatter`, for every set of
  keyboards. The invariant lists the grabs: those of the listeners of every managed
  client, those of the click on every one without `is_focused`, in all the combinations of
  the masks natwm has found. That the combinations of three keys cover every set of
  keys that are on is `Masks`; that the clean mask undoes them is set algebra.
- `HashMapProofs`: `NothingLost` and `IsDictionary`, for any keys, hashes, values and
  thresholds, with strings as keys (overwritten, possibly there twice) and with
  windows. The invariant `Good` says of the table that its count is right (`Table`),
  that nobody's path from its first bucket to its place has a hole and, for windows,
  that distances along it grow as probing supposes (`Sound`), that a key is there
  once (`OneEach`) and that some bucket is crossed by no path (`Uncrossed`). The
  order is what a search may stop at, `Uncrossed` what makes a shift after
  a deletion end; neither survives overwriting a string with another hash, where
  only the holes are claimed. Doubling happens at most once in an insertion
  (`DoublesOnce`), so the recursion of `map_insert` is one unfolding.
- `ContainersProofs`: `TypeCorrect`, `AlwaysLinked`, `ClearIsComplete` and `OrderKept`
  of `LinkedList`, for any number of nodes, and `ActsAsDeque` of `Stack`, with
  any finite set of items. `Linked` is
  not inductive: links may mirror each other in a circle. The invariant says that the
  links spell a sequence `f` without repetition of the nodes inside; each operation is
  shown to turn one such sequence into the next (`With`, `Drop`), and a walk
  to meet `f` and nothing else (`WalkIs`). For a stack `Chains` says the same with one
  link per item, and that `length` is the number of items and none of them is outside;
  it is kept until an item goes in with a link, which is where the promise ends.

- `SetupProofs`: `OnlyWild`, `AllReturned`, `OffsetsOwned`, `NamesWritten` and
  `Promised`, for any number of workspaces, any outputs of the server, names, offsets and
  displays, and whatever fails in any call. The invariant `SetupInv` says what `main` has
  at each call (`Stage`): before the return, that all that `natwm_state_destroy` would
  follow is allocated, and that all that is allocated is what it would free (`Owned`,
  `Closable`). A lemma for each C function says what is there after it has succeeded and
  that, after it has failed, there is what was there before; each function is followed
  through its `goto handle_error`. What does not fit that form has a name, and the
  theorems are about what is left of it: `theme_create` following a wild pointer
  (`Astray`), a reply that is missing and read (`Lost`), and the monitors that
  `monitor_setup` forgets when it fails (`Forgets`). The monitors are moved one by one, so
  what remains of the old array is part of the argument (`Remain`), and `SetNext` keeps
  the offsets in the order of the monitors although an entry may stop it halfway
  (`OwnSequence`). The stage where the loop begins is `Desktop`'s initial state.
- `SetupProofs`, last part: `ReadInside` and `ReadOnwards` of `Parser`, for every text
  with any characters, arrays to any depth and on any lines, and whatever the variables
  hold. Each reader that succeeds leaves the parser between where it was and the end of
  the file (`Advances`), and never hands on a string that is `NULL`: for the
  values by induction on their depth (`ValueOnward`), each step of which is one on the
  items of an array (`ItemsOnward`). The invariant has in addition what `StaysInside`
  needs when the parser is past the terminator, the comment that took it there
  (`InComment`). `MovesOn`, which no run repeats, is that each round takes the parser
  on or is the last: with that bound reading ends after no more rounds than the file
  has characters.

Loops are written as functions of the number of steps done. What such a function keeps
is proved by the smallest number of steps for which it would fail (`Throughout` in
`HashMapProofs`), from the well-foundedness of `<` on the naturals.

Only model-checked: `StopEnds`, `EventsHandled`, `LossEnds` and `GestureEnds`, since
liveness under fairness is beyond the prover; `ReadAsMeant` of `Config`, since what a
file means and how it is written are recursive definitions; and `OneOwner` of
`ConfigMemory`, a recursion over nested values with every allocation failing.

## Statements found false

Comments and documents of the repository state the following, and the code does
something else. Two have runs of their own; for the others the property is in the
module, and TLC refutes it when it is added to the named configuration.

| statement | property | configuration |
|---|---|---|
| a click is released once the client is focused (`button.c:441`) | `ClickReleased` | run `click` |
| fullscreen clients are ignored by gestures (`button.c:468`) | `RectPresent` | `MCPointer.cfg`; with a situation that allows only `"chord"` for a second button |
| an error is reported and natwm closes (`natwm.c:408`) | `ErrorCloses` | run `theme` |
| so is a lost connection (`natwm.c:408`) | `LossCloses` | `MCSetup.cfg` |
| monitors are in the order they are received (`workspace.c:54`) | `AsReceived` | `MCSetup.cfg` |
| natwm uses the default screen (`natwm.c:325`) | `HintsOnScreen` | `MCSetup_theme.cfg` |
| a client that does not fit with its border is cut to fit (`client.c:209`) | `ThemeFits` | `MCPlacement.cfg` |
| a focused workspace is on a monitor (`client.c:300`, "Should not happen") | `FocusedWorkspaceShown` | `MCNatwm_structure.cfg` |
| with only hidden clients the root window has the focus (`workspace.c:394`) | `RootIfAllHidden` | `MCNatwm_structure.cfg` |
| a hidden client is not on any screen (`client.h:24`) | `HiddenNotMapped` | `MCNatwm_structure.cfg`; also with `QueueBound = 0` and `Remaps = 1` |
| an unfocused client can be clicked (`client.c:861`) | `ClickToFocus` | `MCNatwm_structure.cfg` |
| signals are caught and handled (`natwm.c:311`), the earliest and those under load too | `SignalEnds` | `MCMainLoop.cfg` |
| an interruption is looked at, not an error (`natwm.c:145`) | `InterruptionIsChecked` | `MCMainLoop.cfg` |
| offsets are not taken up (`README.md:134`) | `ReservedLeft` | `MCPlacement.cfg` |
| only requests of unregistered windows are passed along (`client.c:407`) | `ClientsAdjusted` | `MCPlacement.cfg` |
| a fullscreen client is not resized (`button.c:499`) | `FullscreenLeftAlone` | `MCPlacement.cfg` |
| a motion is processed only within the current monitor (`event.c:137`) | `DragsWhereItIs` | `MCPlacement.cfg` |
| there are no offsets by default (`monitor.c:55`) | `NoOffsetByDefault` | `MCPlacement.cfg` with `HasOption = FALSE`, `Leftovers <- SomeOffsets` |
| a key is overwritten (`map.c:284`) | `OneEntryEach` | `MCHashMap.cfg` |
| entries are ordered by distance (`map.c:130`) | `RobinHood` | `MCHashMap.cfg` |
| deletion shifts back within the table (`map.h:23`) | `DeletesInTable` | `MCHashMap.cfg` |
| no memory is left after an error (`parser.c:914`) | `NothingLeft` | `MCConfig.cfg` |
| NULL is returned after an error (`parser.c:914`) | `NullReturned` | `MCConfig.cfg` |
| the lock of a map is attempted (`map.c:72`) | `NeverWaits` | `MCHashMap.cfg` |
| an array is the same on one line and on several (`parser.c:371`) | `SameOnLines` | `MCConfig.cfg` |
| an array is split at its top level only (`parser.c:164`) | `TopLevelOnly` | `MCConfig.cfg` |

`Stack` states two things its header does not promise and a user might expect, also
false: `OneAtATime`, that an item put in again goes in alone (give `Stacks!OneAtATime` a
name in `MCContainers` and add it to the cfg), and `NothingBeyond`, that `stack_peek_n`
finds nothing at the index that is the length.

Seen while reading, without a property: the colours of the resize helper are never
freed (`theme.c:393`); `color_theme_from_config` tests `if (NOT_FOUND_ERROR)`
(`theme.c:291`), which is always true; border widths are cast to `uint16_t` from
whatever number the file has (`theme.c:252`); a focused border of width 0 leaves the
unfocused one on a new client (`client.c:842`), which `BorderTells` excludes; `map_resize` and
`map_probe` forget deleted entries without freeing them (`map.c:252`, `map.c:124`); a string
without its closing quote silently loses its last character; a line without
`=` takes the next line into its key; the example configuration in the README
contains a string that is not closed (`README.md:120`) and an item with `#`
(`README.md:185`), for which `parser_parse_value` refuses the file;
`_NET_WM_DESKTOP` is set when a window is registered (`client.c:348`) and not when it
is sent to another workspace.

## Not modelled

- Allocation failures in the handlers and in their lists. `workspace_add_client` ignores that
  of `map_insert` (`workspace.c:500`), after which a client is on a list and unknown.
- `config_find_*`, the search of the configuration file in the user's directories.
- The conversion of colours, and every colour after it.
- RandR events: only logged.
- EWMH hints other than `_NET_ACTIVE_WINDOW`, `_NET_CURRENT_DESKTOP` and the names of
  the desktops: written and not read.
- The mutex of `natwm_state`: five functions take it (`workspace.c:434`, `workspace.c:491`,
  `button.c:255`, `button.c:321`, `button.c:472`), all in the one thread that handles
  events, and none while another has it.
- The reaction to a mapping notify, which natwm ignores, beyond its effect on
  `Bindings`; stacking; command line options; logging.
- The helper window of a resize: its size and place.

## Plan

Done, in this order, the most important behaviour first: `Desktop`, `Natwm`,
`MainLoop`, `Placement`, `Pointer`, `HashMap`, `LinkedList`, `Config` with `Parser`; then `Bindings`,
`Setup` with `Memory`, `Theme` and `Screens`, the border in `Placement`, `Stack`,
`ConfigMemory`, each with its run; proofs for most of them.

Done since: the second part of `NatwmProofs`; `NoFault`, `GrabbedHeld` and `Follows` of
`Pointer`; `HashMapProofs`, the order of a list and the stack in `ContainersProofs`,
`NeverApart`, and `SetupProofs`, for which the loops of `Setup` and its parts became
functions (`ForEach` of `Memory`), and the readers of the parser too, in a module of
their own (`Parser`).

Next, proofs: `OneOwner` of `ConfigMemory`, once its readers are functions as those of
`Parser` are.

Next, models: `Pointer` composed with `Placement`, so that a resize that fails is the
real one; allocation failures in `client_register_window` and `workspace_add_client`.
