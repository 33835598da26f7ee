# DevivaDraw, verified

A verification development of DevivaDraw: TLA+ modules that model its stateful
core, TLC configurations that check them on small instances, and TLAPS proofs of
the results that matter most. Paths are relative to the repository; definitions
are translated from its source. `PROJECT.json` maps every definition to the lines
it models and lists runs, mutants, findings, hazards and theorems.

## 1. The system

DevivaDraw is a whiteboard. A document is a list of pages; a page is a scene of
elements, with layers, comments and an undo history of its own. It runs in the
browser and as a desktop app; several people may edit one document in an
end-to-end encrypted room, through a hosted relay or one on a LAN host.

| component | state it keeps | operations | interacts with |
|---|---|---|---|
| last-writer-wins record (`packages/engine/src/scene/lww-record.ts`, `scene-mutations.ts`; `collab-client/src/lww-merge.ts`) | `version`, `versionNonce` of every element and comment record | `touch`, `lwwRecordWins`, merge | everything that syncs |
| session of a client (`collab-session.ts`, `outbound-sync.ts`, `inbound-message-handler.ts`, `connection-manager.ts`; `react/src/hooks/use-collab-session.ts`) | maps of synced versions, debounce and interval timers, socket, role, key; the hook's link and status | join, leave, debounced flush, snapshot, merge of a frame, reconnect, give up | scene (subscription), relay (frames), page list, presence |
| hosted relay (`apps/collab-server/src`) | registry of connections and roles, latest snapshot in memory and in a bucket, room id in storage | upgrade, frame, close, hibernation, cold start | the clients' sockets, the bucket |
| LAN relay (`apps/desktop/src-tauri/src/lan_relay`) | rooms, members, a bounded queue for each | accept, frame, drop of a slow member, stop | the clients' sockets |
| page list (`page-store.ts`, `adopt-room-pages.ts`) | pages, active page, manifest version, tombstones | add, rename, remove, switch, save and open a file, adopt a manifest, make a page for a delta | session |
| layers of a page (`scene-layers.ts`) | ordered layers, default and active layer, manifest stamp, tombstones | add, rename, show, lock, move, remove, reload, adopt a manifest | page list's snapshots, autosave |
| order of elements (`fractional-index.ts`, `selection/z-order-ops.ts`) | an index key in every element | draw, bring to front, send to back, step forward and backward | scene, layers |
| undo history (`history-stack.ts`) | snapshots, cursor, open batch | begin, end and cancel a batch, push, undo, redo | every tool, dialog and text edit |
| canvas input (`input/`, `tools/`, `selection/`) | active pointer, swallowed pointers, tool override, gesture flag, each tool's draft | pointer down, move, up, cancel, blur, teardown, keys, tool switch | scene, undo history |
| text editing (`text/`, `react/src/hooks/use-text-editing.ts`, `double-click-edit.ts`) | the open editor and its draft, labels and the boxes they belong to | place, open, type, leave, lay a label out, delete with the box | scene (a hook), undo history, canvas input, the browser's focus |
| arrow bindings (`bindings/`, `tools/arrow-endpoint-binding.ts`) | `startBinding`, `endBinding` of an arrow, `boundElements` of a shape | bind, unbind, reroute from the update hook, delete | scene, session (the hook runs on what is merged) |
| scene (`scene.ts`) | elements by id, hooks, subscribers | add, update, delete, load a snapshot, apply a remote record | all of the above |
| comments (`comments/comments-store.ts`) | threads and messages, with caps | add, edit, resolve, delete, merge, reload | session, scene |
| presence (`presence-state.ts`) | who is shown, and where | update, leave, clear | session |
| autosave, versions, images (`react/src/browser`, `react/src/runtime`) | the slot in localStorage, images in IndexedDB, stored versions, writers' queues | debounced save, offload, restore, capture, prune, collect | scene, page list |
| desktop document (`apps/desktop/src/document-host.ts`, `file_io.rs`) | open document and path, dirty flag, watcher, prompts | open, save, save as, reload, close, change on disk | file system, autosave |
| MCP server (`packages/mcp`) | a scene session, a live bridge | tools over a scene | session |

What is hard about it:

- **Awaits inside a flush.** A delta is encrypted (an await) between reading the
  scene and writing the socket, and an inbound frame is decrypted (an await)
  before it is merged. Edits, merges, overlapping flushes, drops and rejoins run
  in between; a join awaits its key, and may be left or overtaken meanwhile.
- **Loss.** `send` on a closed socket returns false, a dying socket swallows
  frames; nothing is acknowledged. Only snapshots repair.
- **Many merge rules.** Records, page manifests and layer manifests are merged
  each by its own rule, in any order; comments under caps; bindings and the order
  of elements are properties of several records that are merged one by one.
- **A relay that loses its memory.** The Durable Object is evicted with its
  sockets open and reads its bucket while frames arrive; the LAN relay drops
  members that it cannot keep up to date.
- **Undo beside merging.** Undo puts back a whole scene of old versions; every
  gesture and dialog of a page shares the history's single open batch.
- **Several pointers.** Palm, pen, mouse and keys interleave; some ups never come.
- **Storage in pieces.** The slot, the image database and the versions are written
  and collected separately, each after awaits; a file changes under its document.

What makes each component correct is stated with its module below; the hazards,
each at its line, are in `PROJECT.json`.

## 2. Modules

| module | models | how its state and actions correspond to the code |
|---|---|---|
| `LwwRecord` | `LwwRecord`, `lwwRecordWins`, `touch` | operators on records `[version, versionNonce]`; the order of nonces is a constant |
| `VersionNonce` | the comparison of nonces as strings | the order `String(a) > String(b)` on numbers, for the runs that use it |
| `LwwRegister` | abstract: one record replicated over peers | `held[p]` is what a peer has, `minted` all records ever made; `Edit`, `Offer` |
| `RoomSync` | sessions of all peers and the relay between them, one page | `scene`, `synced` (`syncedVersions`, `syncedComments`), `timer` (`outboundTimer`), `scan`, `enc` and `snap` (suspended flushes and snapshots), `conn`, frames in flight as sets, `cache` (`latestSnapshot`); one action per timer, promise and socket event |
| `SessionLifecycle` | `useCollabSession`, `CollabSession` across its awaits, a `ConnectionManager` for each join, `PresenceStore` | `stage` of each join's promise, `manager` (socket, `closedByCaller`, `reconnectAttempt`, timer), `held`, `running`, `tail` (what `disconnect()` would end), the hook's `joining`, `roomUrl`, `ended`; `present`, `decrypting`, `shown` |
| `RoomRelay` | `RoomDO` with its registry, storage and bucket | `phase` of each upgrade, `registry`, `attached` (serialised attachment), `cache`, `loaded`, `writes`, `bucket`; hibernation and failure wipe what they wipe |
| `LanRelay` | the relay of a desktop host | `phase` of each reading task, `writer` of each writing task, `queue` (bounded), `members`, `cache`, `serving`; the lock around the rooms makes its steps |
| `PageList` | `PageStore` of every peer, `adoptRoomPages`, snapshots and deltas | `list`, `drawn`, `active`, `version`, `dead` (`tombstonedPageIds`), `before` (the join that waits for the room's pages) |
| `LayerList` | `SceneLayersStore` of every peer, reload from autosave | `own` (layers and stamp), `default`, `active`, `dead`, `sent` |
| `ElementOrder` | index keys, `getElements`, `z-order-ops.ts`, drawing and moving between layers | `scene` with `index` and `layer` of every element, `arrived` (the order of its map); one action per command, on any selection |
| `CommentStore` | `SceneCommentsStore` of every peer, its caps and its reload | `store`: threads and messages by id; one action per method |
| `HistoryStack` | class `HistoryStack` as a value | one operator per method |
| `UndoPromise` | abstract: past, present, future | `Record`, `Undo`, `Redo` |
| `UndoInRoom` | `Scene`, `HistoryStack` and outbound scan of every peer on one page | `scene`, `history`, `synced`; one action per method of the history, in any order; undo loads a whole scene without new versions; deltas may be lost, snapshots come again |
| `CanvasInput` | `PointerEventPipeline`, `ToolStateMachine`, four tools, scene and history | `canvas` is one record because every handler runs to its end; a handler is a function of it; pointers, swallowed ids and the space bar are beside it |
| `ArrowBindings` | `binding-model.ts`, `binding-scene-sync.ts`, the gestures that bind, and two peers' merge of the records | `scene` of each peer with `boundElements` and `binding`, `synced`, `frames` in order; the update hook is part of each update, local or remote |
| `TextEditing` | `TextEditSession` and those who open it, the textarea, labels and their hook, with the drags, deletions and undos that come between | `page` is scene, history and session, because every handler runs to its end; `focused` is the textarea, `press` and `grab` the pointer; the hook is part of each update |
| `FileDocument` | `DocumentHost`, `DocumentStateTracker`, save and open flows, `file_io.rs` and its watcher | `disk`, `doc`, `path`, `dirty`; `save`, `gate`, `opening` for the flows under way; `watch`, `timer`, `reading` for a change on disk; `slot`, `kept` for the backups |
| `ImageStore` | autosave slot, image database, version history, the collection of images, restore at boot | `doc`, `held`, `slot`, `db` with its request queue `io`, `writers` (autosave controllers), `versions`, `queue`, `passes` |

`RoomSync` and `CommentStore` are built on `LwwRecord` and refine `LwwRegister` for
every record; `CanvasInput`, `TextEditing` and `UndoInRoom` are built on `HistoryStack`;
every history of `UndoInRoom` refines `UndoPromise`.
`RoomAndPagesProofs`, `CommentStoreProofs`, `UndoInRoomProofs`, `RoomRelayProofs`,
`SessionLifecycleProofs`, `FileDocumentProofs`, `ImageStoreProofs` and
`CanvasInputProofs` hold the proofs.

The `MC*` modules give model values, symmetry and, four of them, a sum: the
variable `kind` chooses at the start which of two or three systems changes; the
others keep their initial state, and a property is asked of the system it is about
(`MCRoomAndPages`: `RoomSync` or `PageList`; `MCPageContents`: `CommentStore`,
`LayerList` or `ElementOrder`; `MCCanvas`: `CanvasInput`,
`ArrowBindings` or `TextEditing`; `MCRelays`: `RoomRelay` or `LanRelay`). The systems of one sum
do not interact; a sum has as many states as its parts together.

### What the modules abstract

- An element or comment is its record and whatever the module is about; contents
  are told apart only by it. Encryption is a step that takes time. Structural
  validation of untrusted frames is left out: it never changes what an honest peer
  sends. Two edits of one id never draw the same nonce for the same version (two
  31-bit random numbers of the code may, with probability 2^-31; nothing in the
  code handles it).
- `RoomSync` has one page; the page and layer lists have modules of their own.
- `SessionLifecycle` numbers the joins; a number stands for room, key, connection
  and timers. What a connected session does is `RoomSync`. The history variable
  `crossed` says that an await or a close was overtaken by another session: the
  code keeps `ShownIsTrue` only without that (divergences below). `stray` are the
  connections that a join, going on after that, found and left: `OneSession` says that
  nothing else is left, and is checked always, as `QuietAfterEnd` and
  `EverythingSettles` are. `late` are the peers that a late frame put back.
- `RoomRelay` keeps only the frames the relay remembers. Outside the repository,
  and modelled from how it is used: a Durable Object handles one event at a time
  except at awaits, keeps accepted sockets across hibernation and loses them when
  it fails; puts to the bucket may fail and finish in any order. The constructor's
  `blockConcurrencyWhile` makes the restored room id precede every event.
- `LanRelay` has one room, and tokens are the roles they prove. A writer that
  empties its queue while the lock is held could as well have emptied it before.
- `PageList` forgets the order of the pages, and with it which neighbour becomes
  the active page. `LayerList` has one bit for name, visibility and lock.
- `ElementOrder` has keys that are integers: a whole step is `Unit`, between two
  keys is a whole one if there is room and else the middle, always the same one,
  as the library has it, and nothing is moved in so far that two keys would have none
  between them (`Spaced`, which withholds no step in the run). Layers are places. Geometry, hooks and the undo step of a
  command are left out. A record without rivals gets one fixed nonce.
- `CommentStore` has an author, a thread and a message for each peer; any record
  may come at any time and again.
- `CanvasInput` has four tools for all: a dragged shape (rectangle, frame, table,
  freedraw share its life cycle), a line (arrows share it), selection and panning.
  An element is absent, in one of two shapes, or deleted; a discarded draft is as if
  it had never been there. An arrow that is grabbed alone may lose its binding with
  the press (`Grabbed`). `Command` is whatever opens a batch, changes, deletes or adds
  something and closes it, from a key, a menu or a panel: one element stands for all
  that are selected, and what it does to the selection or the tool is left out. A captured
  pointer's up always arrives (capture, the window fallback or a blur); other
  pointers' may not. A capture that an abort released (`uncaught`) is reported before
  anything else of its pointer (`LostCapture`). The history variable `crossed` says
  that undo changed the scene under a gesture, that a command or another tool's
  gesture closed the batch of a drag or of a half-drawn line, or that a dropped
  binding was left on no record: from then on `NothingUnrecorded` and
  `GestureIsOneStep` do not hold of the code and are not asked, until nothing is in
  hand and the screen is on record again; everything else is still checked.
- `TextEditing` has sizes that are the text they were measured for, places instead of
  geometry, and boxes that are tall or not. A mouse's press is handled by the canvas
  and then takes the focus, with nothing between; a touch never takes it. A drag is its
  moves, a release or an abort. The history variable `lost` says that a drag or an
  aborted press left an open editor, or an editor a drag, without its batch: until
  screen and history agree again `ShownIsRecorded` and `EditIsOneStep` are not asked.
- `ArrowBindings` has bindings to an anchor of the shape, so that where an end
  belongs depends on the shape alone; a drag is its last move and its release; an
  end is attached at one of two places or loose; no frame is lost.
- `UndoInRoom` has flushes that are one step: `RoomSync` has the awaits.
- `FileDocument` has texts that are sets of strokes; their hashes do not collide.
  Two strokes drawn one after another in one document are not ordered. The history
  variable `late` holds what is drawn between the answer of the unsaved-changes prompt
  (a save that went through, "don't save", or nothing to save) and the end of the
  window: `WorkIsSomewhere` and `CleanMeansSaved` do not claim those strokes, because
  the code loses them (divergences below).
- `ImageStore` has documents that are the sets of images they name. Database
  requests are served in their order, and any of them may fail; a reload drops those
  not served yet. Controllers and collections are bounded by how many are alive at
  once, not by how many rebuilds there are. Two history variables say which images the
  code loses (divergences below). `ghosts`: images that a collection deleted while a
  controller remembered them as stored or the slot still named them, and those a
  restored version could not be given back; an image stored again is none.
  `missed`, of each snapshot: its images that were ghosts when it was taken, or that
  nothing kept from a collection which had read its keep-set by then. All other images
  of a version must be there for as long as it is stored.

## 3. Runs

Every passing run has, for each property, a mutant: a plausible bug put in a
mapped definition that makes the property fail in that same run.

| run | what it asks | bounds |
|---|---|---|
| `room` | records: concurrent edits, deltas and requested snapshots over a socket that is lost, or a session that is left and rejoined, with flushes suspended: nothing but what somebody wrote, no unsent change without a wake-up, and a refinement of the register. Pages: is the document whole, do deleted pages stay dead, do fresh lists combine? | an editor and a viewer on one comment, 2 edits, 1 drop or leave; 2 peers, 3 page ids, 3 things the users do (saving and opening a file among them), 2 snapshots |
| `room_repair` | does all that an editor holds reach everybody at last, after loss? | 2 editors, 1 element, 1 edit, 1 drop or leave, the periodic snapshots, fairness |
| `session` | is there one session at most, is what is shown true, is nothing heard of a session that has ended, and does every join come to an end? | 2 joins or starts, 1 reconnect attempt, 2 lost sockets, 1 other peer, fairness |
| `relays` | hosted: roles, writes, cache and echo across hibernation and failure. Local: is everybody sent everything or dropped, and is nobody believed present who is not? | 2 editors, 1 viewer; 2 snapshots, 1 hibernation, 1 failure, 1 failed read; queues of 1 frame, room for 2 connections, 2 frames |
| `page_contents` | comments: the caps, agreement as far as they let it, a refinement of the register. Layers: do settled peers agree, do deleted layers stay dead? Order: is it the same everywhere, do the commands keep the order within a selection? | room for 1 thread and 2 messages where twice as many are written, 5 changes, nonces where string and number order differ; 3 layer ids and manifests of 2 layers to version 3, 1 reload; 3 elements on 2 layers, 2 commands, nonces of 3 values |
| `canvas` | input: does every gesture end, as one undo step or none, and leave nothing behind? Arrows: do the two sides of a binding stay in line while users take turns, and do both peers end with the same records however they do not? Texts: do labels stay glued to their box, is what is shown on record, is an edit one undo step? | pen, palm, mouse, four tools, 2 elements, 3 gestures, history depth 3; 2 peers, 2 shapes, 1 arrow, 2 turns; 2 texts, 1 box, 2 words of which one needs a taller box, 2 places, 3 presses or double clicks, depth 3 |
| `undo_in_room` | does undo cost anybody more than the steps it takes back, does nothing else go back, is the history a past, a present and a future, do all agree at last? | 2 peers, one of them undoing, 2 elements to version 2, 3 edits, 2 undos or redos, depth 2, fairness |
| `documents` | is every stroke somewhere, does clean mean saved, does a change on disk come to be seen? | 2 paths, 2 strokes, 1 foreign stroke, 5 turns of the user or of other programs, fairness |
| `images` | do the slot and the versions keep their images, does a collection spare what the board names? | 2 images of which the slot holds 1, 1 automatic version kept, 2 controllers and 2 collections alive at a time, 3 turns |

Edits are bounded by counters in the guards, and counters are never compared with
anything but their bound. Two edits of one record are the least that makes a tie,
a superseded encryption and a stale frame; one drop or leave with everything in
flight makes every frame lose its socket at every point. A comment is the record
that both roles send, so one comment, an editor and a viewer exercise both
directions and the snapshot only an editor answers with. `Periodic` names the
editors whose 30 s timer ever elapses in a run. Two joins are the least that
overtake each other, and a second lost socket exhausts the attempts. A queue of one
frame is full as soon as a writer is slow. Caps are below what peers write, so that
two full stores come to differ. Three elements on two layers with two moves, one by
each peer or both by one, give equal keys, keys without room between them and keys
below a layer's; two elements of one peer start below each other in any way. In
`CanvasInput` a pointer of each kind, two of them down at once (`TwoHands`), and a
second element give every preemption and every confusion of drafts; depth 3 makes the history overflow, and so does 2 in
`undo_in_room`. Two shapes and one arrow give rebinding, loops that share a shape and
a shape left behind; the ties of shapes are won by one peer, those of the arrow by
either. Three presses place or open a text, come between while
it is typed, and drag or edit it again, with undo and redo at every rest. Two paths give a save under another name and a change to a file left behind;
two strokes one that the unsaved-changes prompt asks about and one after its answer.
In `images` one image fits the slot and the other one has to move; the second
collection lets a page be switched, a document opened or a version restored while the
first is under way (with one collection alive, four turns pass as well).

Three runs end in a violation: each states what a comment of the repository says
and the code does not do (`findings` quotes both).

| run | what the code does |
|---|---|
| `page_vanish` | a page disappears because a longer-edited list never knew it |
| `order_steps` | the two frontmost elements, selected and brought forward, change places |
| `documents_clean` | a stroke drawn while the Save dialog is up or the write under way is marked as saved |

**Fairness.** `room_repair`: weak fairness of what the runtime runs by itself (a
timer that is armed, a promise that can settle, an event waiting at an open socket,
the periodic snapshot); users need not edit, join or reconnect, and liveness is
claimed only for behaviours in which everybody stays connected at last. `session`:
of each join's promise, of what a socket or an attempt becomes, of a close that is
to be reported, and of an armed reconnect timer. `undo_in_room`: of the snapshot of
each peer to each other one, which the 30 s timers send for as long as both are
there. `documents`: of the watcher's poll, its debounce and its read, the decision
on it, and a write and its answer; of nothing the user does. Every other run
checks safety only. `CHECK_DEADLOCK FALSE` stands in every run because
users have nothing left to do under the bounds.

### Divergences

What the code does against what its own comments or documents say, or against what
its user expects, met while modelling. The modules reproduce these (a history
variable such as `crossed`, `late` or `ghosts` tells where a property stops to hold)
unless the last paragraphs of the section say that they are left out.

Rooms and records:

- a viewer's comment made while its socket is not open is marked synced and never
  sent (`outbound-sync.ts:82`, against `collab-session.ts:297`);
- a second upgrade while the first one reads the bucket finds an empty cache and
  nobody to ask (`ensureSnapshotLoaded` sets its flag before the read); and the read,
  when it ends, replaces a newer snapshot accepted meanwhile
  (`room-durable-object.ts:164`, against R5 of `docs/collab-relay-protocol.md`);
- an edit after an undo can reuse a version already synced when the undo falls in
  the debounce: the record is not sent until the next snapshot (`outbound-sync.ts:30`);
- a comment edited by one peer and deleted by another may come back
  (`comments-store.ts:7-14`).

Sessions:

- leaving, or closing the editor, while a join awaits its key leaves a live session
  behind (`collab-session.ts:285`); a second join that overtakes the first one leaks
  the first one's connection, interval and subscription;
- the hook's `joining` is lowered by an earlier join that ends in the middle of a
  later one (`use-collab-session.ts:60-67`); the late close of a replaced socket sets
  the status to "connecting" (`connection-manager.ts:10-15`);
- a presence frame whose decryption ends after its sender has left shows the peer
  again (`presence-state.ts:3-5`); timers stay when the connection has given up.

Relay of a desktop host (`lan_relay/server.rs`):

- a member that subscribes to the stop signal after it was sent outlives the stop
  (`:220`, against `:75-79` and `:107-109`); `MAX_CONNECTIONS` is asked before a
  connection counts (`:181-187`);
- the announcement that a slow member was dropped is itself lost at a full queue
  (`:312`, against `:305-306`), and so is a close frame (`:291-297`); dropping a
  member does not end a writer that is stuck in its send (`:310`).

Pages and layers:

- page lists of equal version merge differently on the two sides when one has
  deleted a page, although `page-store.ts:191` calls the union commutative
  (`FreshListsCombine` is the part of it that holds);
- a page that an opened file brought back is listed and still counts as deleted, so
  what others draw on it is dropped;
- the winner of a tie of layer lists is filtered by the local tombstones but keeps
  its stamp: two lists under one stamp (`SettledPeersAgree` is what is left);
- after a reorder and a reload, elements without a layer id are on another layer
  (`scene-layers.ts:200` and `:245`, against `:44`).

Order:

- a step between two neighbours with equal keys throws in `indexBetween`, half way
  through a selection, and the action has no `finally`, so that the history's batch
  stays open (`z-order-ops.ts:56`, `z-order-actions.ts:18`);
- `lastIndex()` is the key of the last element of the topmost layer: what is drawn
  onto a lower one gets a key equal to, or below, one already there
  (`scene.ts:131`, `:673`).

Canvas and arrows:

- undo in mid-drag makes the gesture commit over an older entry; choosing another
  tool between two clicks of a line leaves its batch open, so that pushes are
  swallowed until a gesture closes it;
- Delete, nudge, paste and every other command whose key arrives in mid-drag closes
  the drag's batch (`selection-tool-keyboard.ts:48-52`, by `tool-state-machine.ts:100-103`):
  what is moved after it is on no record, against `history-stack.ts:12-14`;
- a touch that a pen has preempted is swallowed only until the browser reports the
  capture that the abort released (`pointer-event-pipeline.ts:316`, `:135`, `:283`), not
  "until it lifts so it can't drive phantom hover" (`:93-99`, `:190-191`): its later moves
  reach the active tool as hover;
- a click or Escape on a bound arrow drops its bindings at once while the batch is
  cancelled: a change no undo step has (`selection-move-gesture.ts:85`);
- two people who change one shape at once part the two sides of a binding, because
  `boundElements` is merged as a whole (against `binding-model.ts:4-8`, "no dangling
  refs, ever"); a shape's record that arrives before its arrow's makes the receiver
  write an arrow of its own (`scene.ts:546-548`).

Texts:

- with the text tool locked, a click elsewhere starts the next text before the focus
  leaves the one just typed, and `start` cancels that one: the text is deleted
  (`text-edit-session.ts:79-86`, against `use-text-editing.ts:167`, "Clicking away also
  commits via `onBlur`");
- a text's size is written after its batch has ended: undo of the next gesture brings
  it back with no size, so that no click finds it (`text-edit-session.ts:124-128`,
  against `history-stack.ts:12-14`);
- a tap, a second finger or a drag while an editor is open cancels or closes the
  editor's batch; what is typed then is in no undo step
  (`selection-move-gesture.ts:205`, `pointer-event-pipeline.ts:313`).

Documents and images:

- a change on disk is compared with the document's path before its text is read, not
  after (`document-host.ts:493`); after a reload the window takes what it reads for
  its own write and the other way round (`external-change.ts:14-17`);
- a stroke drawn after the unsaved-changes prompt has its answer and before the window
  is gone, while the list of recent files is written or `destroy` or `relaunch` is
  awaited, is asked about by nobody and is in the slot only if its second is over by
  then (`document-host.ts:121`, `:138`, `:217`, against `:108-109`, "it is safe to
  proceed", and `:147`, "the updater never relaunches over unsaved work"); if `destroy`
  or `relaunch` throws, `closing` stays set and the next close asks nothing;
- a save in flight while another document is opened gives the second one the first
  one's name (`document-state-tracker.ts:52-56`); a save from the shell's own menu
  does not ask about a conflict (`build-persistence-operations.ts:134`); "Keep mine"
  followed by a cancelled dialog takes the conflict bar away; a change between the
  read of an opened file and the watcher's first look is not noticed
  (`file_io.rs:189-192`); whether scratch work is kept is decided by the debounced
  slot;
- rows of the image database deleted in a session are still remembered as stored
  (`autosave-file-offload.ts:90`, `use-version-history.ts:128`); the controller of a
  replaced document still writes the slot; a version still in the writer's queue
  does not keep its images, and neither does one that is restored, or a snapshot taken,
  while a collection is deleting; a restore's own milestone can prune the version it
  restores; a refusal by the quota while the database opens is never told
  (`scene-file-operations.ts:83`).

Seen and not modelled: deleting an arrow leaves its label alive, drawn and never
selectable (`binding-model.ts:102-108`); `repairDanglingReferences` detaches the labels
of arrows whenever a document is loaded; the MCP tool `delete_elements` does not
unbind arrows (`element-tools.ts:141`); cancelling a drag of copies or of elements
writes back whole stale records; a file given to the app at launch can be delivered
and buffered at once (`launch.rs:141`); a relay's `send` or a tool's `onGestureEnd`
that throws.

## 4. Proofs

Checked by TLAPS for every value of the constants; assumed are only the named
`ASSUME`s on them: nonces are totally ordered (`NonceOrder`), model values such as
`Absent` and `NoSnapshot` are not data, texts are not boxes (`TextsAssumption`), the
nonces of layers are numbers (`LayersAssumption`), ids and places of elements are
naturals, finitely many ids, with a string order that tells their nonces apart, and
a whole step between keys is at least 2 (`DrawnAssumption`), shapes and arrows are finitely many and no id is both, and the two
peers that change them draw nonces from an order with a first and a last
(`ArrowsAssumption`), roles and kinds are disjoint, bounds are naturals, `MaxDepth` is
positive.

- The last-writer-wins comparison: beating is irreflexive, asymmetric, total on
  different records and transitive; adopting by it gives the maximum of what was seen.
  `RoomAndPagesProofs`, `UndoInRoomProofs` and `CommentStoreProofs` begin with the
  lemmas of these that each needs.
- `RoomAndPagesProofs`, first of the room: the type invariant and `NoPhantomRecords` need to be
  strengthened by where records in jobs, frames, the cache and the synced maps come
  from, and by marks never running ahead of the scene (`SyncedNotAhead`): a mark of a
  version the peer does not hold yet would break `NoLostWakeup` at the next edit.
  From that invariant: `RoomNoPhantoms`, `RoomNeverBackwards`,
  `RoomImplementsRegister` (each action is an `Edit`, an `Offer` or a stutter of the
  register of every id), `RoomAgreement` (peers that were offered every version of a
  record show the same one: each of two different ones would have to beat the other)
  and `RoomNoLostWakeup`, whose core is that only an edit or a
  merge dirties a record and both arm the timer, and that a flush gives up an entry
  only when a newer version has.
  Then of the page lists (`Pages` of `MCSpec`), for any peers and pages:
  `EveryPageListIsWhole` needs that what was saved to a file and what is in a
  snapshot on its way is whole as well (`PagesSound`), since opening and adopting
  install it unseen; there is a name for every page because the pages of a list are
  finite and distinct (`NextNameFits`, `MaterialisedFacts`, by cardinalities).
  `DeletedPagesStayDead`: the only steps that list a deleted page are those that make
  the version of the list grow (`RevivedStep`), because a union and the pages of a
  frame leave out the tombstones.
- `RoomRelayProofs`: none of the five properties of the relay is inductive alone. The
  invariant adds that the registry is what the sockets carry (`MembersAreAttached`:
  then an eviction changes nothing), that members are exactly those whose socket is
  held, that whoever has sent a frame made the relay store its room id
  (`RoomIsKnown`, without which a frame could be accepted and not written), and that
  the author of any snapshot at hand has made its one request already
  (`AuthorsHaveAsked`: the cache can no longer answer him). From it: `RelayTypeOK`,
  `RelayRolesSurvive`, `RelayWritesAll`, `RelayStaysWarm`, `RelayNoEcho`.
  Of the local relay (`Lan` of `MCSpec`), for any connections, capacity and number of
  frames, `LanMembersAreRoom`. A frame that cannot be queued for a member leaves the
  room unsound until the loop over those members is through; so the lemmas follow one
  frame (`LanTold`), one departure (`LanAnnounced`) and the loop (`LanDropped`), and
  what is an invariant is that the room between two steps is `Sound`, that members
  have a task that has not ended (`LanMembersStay`, hence somebody is left to take the
  room away) and that there is no room without such a task. The loop is a function
  defined by recursion on the place in a sequence; that there is one, and what it
  returns, is shown by the least place where it would fail (`LeastNat`,
  `InTurnExists`), which needs no induction over an operator.
- `CommentStoreProofs`, for any peers and caps: the invariant is the types with the
  caps (`CommentsTypeCorrect`: a mutation and a merge add at most one id and only where
  it has room; the rest is cardinalities of finite sets), that what is held was made
  (`HeldWasMade`) and that no two records of an id share a stamp (`StampsDiffer`,
  without which equal stamps would not be equal comments). From it:
  `EachCommentIsARegister`, where a mutation is an `Edit`, a merge an `Offer` on the
  stamps, and a reload nothing at all, because what was saved is within the caps; and
  `CommentsConverge`. Then the layers of `LayerList`, the instance of `MCPageContents`:
  a list has layers that were made, each once, the default and the active one among
  them (`Proper`), what a peer deleted was removed by somebody, and lists under one
  stamp differ at most by layers that somebody removed (`Alike`, the inductive form of
  settled peers agreeing). A winner of a tie is filtered and goes on under its stamp,
  so this rests on the algebra of `Without`: filtering by the tombstones and then by
  all that was removed is the latter (`WithoutTwice`, by the shortest list for which it
  would fail). From it: `PageContentsAreWhole`, `DeletedLayersStayDead` and
  `SettledLayersAgree`. Then the elements of `ElementOrder` (`ElementsInvHolds`): what a
  peer has was minted, its map lists it once, and one id never has two elements under
  one stamp, because `Write` draws a nonce that no rival has. Peers that have merged
  everything then have the same page (`CaughtUpAlike`) and, as the comparator is a
  strict total order (`BelowOrder`) that sorts any elements in exactly one way that
  asks nobody whose page it is (`InOrderSorts`), draw it alike. That every command
  keeps a page a page is a fold over the selection: TLA+ defines a fold by a CHOOSE,
  so `FoldExists` shows that such a function exists and `FoldStays` what it keeps.
  With the comments and the layers this is `PeersSettle`: `SettledPeersAgree` as a whole.
  `CommandsKeepOrder`, for any page, selection and keys: while a selection is folded
  over, each element taken is outside all that were not and all taken before it
  (`Passed`, kept by `PassedNext`), whatever order keys that are equal or on other
  layers leave; a sequence is the order of a layer as soon as each of it is below the
  next (`OneOrder`), so the two halves put together are (`PassedOrder`). A step
  gives one new key past a neighbour and short of the next (`Past`), which
  exchanges two places (`PastOrder`); it needs a key between any two (`Spaced`).
- `UndoInRoomProofs`, for any peers, elements and depth: `Carries` says that the scene
  and every entry of a peer's history hold, element by element, what the peer's own
  work was at that entry, or something newer. The scene alone would not do: undo and
  redo load any entry, and a commit moves them all when the oldest go
  (`CommitFacts`, an account of what `commit` leaves at each place). A merge only
  makes a scene newer (`CarriedOn`). From it: `RoomOwnWorkSurvives`,
  `RoomOnlyUndoGoesBack`, and `RoomKeepsThePromise`: a commit is `Record`, undo and
  redo move one snapshot, everything else stutters.
- `SessionLifecycleProofs`, for any number of joins, attempts and peers: what makes
  the properties inductive is that a join still at an await has no manager yet and
  joins are asked for in the order of their numbers (`JoinsInOrder`), that a closed
  manager has no socket and no timer (`ManagersAreSound`), that `disconnect()` would
  end exactly the session held, that everybody but the session held and the strays was
  closed or never began (`OnlyStrays`), and, as long as nothing was overtaken, that
  there are no strays (`NobodyElse`), that one await is pending at a time and before
  its connection has opened only late frames show anybody (`NobodyYet`).
  From it: `SessionOneSession`, `SessionShownIsTrue`; `SessionQuietAfterEnd` needs
  beside it that no step opens a closed manager, overtaken or not.
- `FileDocumentProofs`, for any paths and strokes: `WorkIsSomewhere` is not inductive,
  because what keeps it when a document is replaced or the window goes is that a clean
  document is in the slot (`SlotIsCurrent`) and that a passed unsaved-changes prompt
  has already made the slot, the backups or the user's word cover every stroke but the
  late ones (`ReadyToGo`); `CleanMeansSaved` needs that a save under way carries the document as
  it is unless something came in between (`SaveIsCurrent`). From it:
  `DocumentWorkIsSomewhere`, `DocumentCleanMeansSaved`.
- `CanvasInputProofs`, for any pointers, elements, toolbar and depth: one lemma per
  operator on the canvas and one per handler. `Hand` relates gesture, override, draft
  and batch; `Recorded` says how far the scene may be from the current entry of the
  history and where: nowhere with nothing in hand, at the dragged element only during
  a drag, at the draft only while a line is half drawn, which itself is in no entry
  (`LineIsNew`, so that undo between two clicks cannot bring half a line back);
  `BeganOnRecord` that a drag began at the current entry. All this is claimed only while not `crossed`;
  what ends the exemption is a screen that is on record with nothing in hand, from
  which it all follows. A drag that is aborted returns to the record only if its press
  dropped no binding (`Undropped`). The swallowed pointers need
  that the drawing one is never among them, nor among those whose capture an abort has
  released and that have not been told. From it:
  `CanvasHandIsFree`, `CanvasBatchHasAnOwner`, `CanvasNothingUnrecorded`,
  `CanvasGestureIsOneStep`.
  Of texts (`Texts` of `MCSpec`), for any texts, boxes, words and depth: that labels
  are glued is not inductive, because undo runs no hook and an aborted drag writes back
  what was grabbed; so every entry of the history is `Glued` too, a label and its box
  name each other from both sides (`Tied`), and a box that is dragged has the label it
  had or has lost it for good (`Held`), which is what makes writing it back harmless.
  What `ShownIsRecorded` needs in the middle of an edit or a drag is `Agrees`: what a
  cancel would leave (`Base`), or the drag put back, shows the current entry; and, as
  long as nothing was left without its batch, that the batch was opened on it. The
  lemmas are one per operator on a scene, one per method of the session and one per
  event. From it: `TextsLabelsGlued`, `TextsAreRecorded`, `TextsEditsAreOneStep`.
  Of shapes and arrows (`Arrows` of `MCSpec`), for any number of either and any number
  of turns: one lemma per function of `binding-model.ts` and per gesture says that,
  in whatever order it visits arrows and ends, a page only grows by it (`Grown`): each
  record is as it was, or newer and with the peer's own nonce. That is all the
  merge needs of the hook. The invariant (`ArrowsInv`) is about every record there is,
  on a page or in a frame: no stamp stands for two of them (`StampsOnce`), for which
  nothing that carries a peer's nonce is newer than what that peer holds
  (`OwnAreNewest`, kept although a merge replaces what it holds, because what wins is
  newer); a frame is no newer than its sender's page (`FramesAreOld`); and what a peer
  holds is to be sent, or under way, or its partner has it or something newer
  (`ChangesReach`). When nothing is to be sent or under way the last leaves the same
  stamps on both sides, and the first the same records. From it: `QuietArrowsAgree`.
- `ImageStoreProofs`, for any images, any room in the slot, any retention and any
  number of controllers and of collections at once: `ImagesAreKept` is about the slot, the versions and the
  database at rest, and nothing in it says why a step keeps it. The invariant follows
  the bytes and the collections through the queue of requests: every request of a
  collection is the one its stage waits for, once, and names what the collection holds
  (`RequestsLegal`); what a controller leaves out of the slot is in the database
  (`StoredIsHad`); what the board names without bytes is in the database and was named
  throughout, or its read stands before any deletion of it in the queue (`BoardHas`);
  at every stage what the board has named throughout, and what a snapshot names and has
  not missed, is among what a collection keeps or not among what it deletes (`Spared`,
  `Safe`); and until the boot restore is over no other collection has begun (`Boots`).
  It was not inductive at first: an image that a collection is about to delete is still
  in the database when a version is restored or a snapshot taken, so both history
  variables have to count it, image by image. From it: `StoreImagesAreKept`,
  `StoreCollectionSparesTheBoard`, whose core is that only `Deleted` takes anything out.

TLC has checked each of these inductive invariants on the instance of its run before
it was proved.

Only model-checked: liveness (`PeersAgreeAtLast`, `ChangesAreShown`,
`EverythingSettles` and the repair of a room), which is outside the prover; the
string order of nonces, of which the proofs assume what `NonceOrder` says; and, not
proved so far, that the two sides of a binding stay in line while users take turns
(`ArrowsTurnsKeepBindings`), which needs what each function makes of a page and not only
that it grows.

## 5. Not modelled, and the plan

Rendering, export, Mermaid and interop import are functions of a scene or a text;
React components are views; share links and the services' routes are one request
and its answer. They are left out for good. Not modelled yet: groups and copies
of elements, labels of arrows; resize, rotate and crop, which share the history's batch; the rate limiters; the recovery slot and several tabs at one slot; the
queue of the MCP bridge; the states of the desktop's hosting and its hook.

Next, in this order:

1. Proofs: that bindings stay in line (`TurnsKeepBindings`).
2. Arrow labels, groups and copies: the labels that outlive their arrow, the references
   that a load repairs, and the ids that a copy gives anew.
3. An abstract relay for rules R1 to R7 of `docs/collab-relay-protocol.md`, with the
   hosted and the LAN relay shown to implement it.
4. Resize and rotate in `CanvasInput`; the hosting hook of the desktop
   app beside `SessionLifecycle`.
