------------------------------- MODULE Frames -------------------------------
(***************************************************************************)
(* Frames in the object store, and the active sets that name them.  A      *)
(* frame is two objects: metadata.json, replaced only under its ETag, and  *)
(* body.md, written without a condition (frames/store.py, S3FrameStore).   *)
(* The routes of routers/frames.py check a frame they have read, ask the   *)
(* store for a change, and prune the frame from the active sets of the     *)
(* users who cannot read it any more (reconcile_active).  Every request is *)
(* a slot, every object or database call one step of it, and a host may    *)
(* stop between any two.                                                   *)
(***************************************************************************)
EXTENDS Naturals

CONSTANTS
  FUsers,        \* the users that send requests
  Foreigners,    \* those of another (org, workspace) than the frames'
  FrameIds,      \* the ids uuid4 hands out, each used once
  Texts,         \* the bodies a request may carry
  SuggestionIds,
  FSlots,        \* requests in progress at one time
  Workloads,     \* [routes, frames]: what one behaviour uses
  GroupIds,      \* the ids of frame groups, each used once
  MaxPuts,       \* bound on the writes of one metadata object
  PutAttempts    \* attempts of _retry_metadata_update

VARIABLES
  meta,     \* [FrameIds -> metadata.json, or NotYet, or Gone]
  body,     \* [FrameIds -> body.md, or NoText]
  active,   \* [FUsers -> the frames of frames_server_active_frames]
  fslot,    \* [FSlots -> a request]
  groups,   \* [GroupIds -> a row of frames_server_groups, or NotYet, or Gone]
  ops,      \* the routes and frames in use, a member of Workloads
  excused   \* history: <<user, frame>> whose pruning was cut off or outrun

framesVars == <<meta, body, active, fslot, groups, ops, excused>>

NotYet == [missing |-> "not created"]
Gone == [missing |-> "deleted"]
NoText == "no text"
NoSuggestion == [status |-> "none", by |-> "nobody"]
Visibilities == {"private", "internal", "public"}

Stored(f) == meta[f] \notin {NotYet, Gone}

---------------------------------------------------------------------------
(* frames/access.py *)

can_read(m, u) ==
  \/ u \in m.owners
  \/ /\ m.published
     /\ \/ m.visibility = "public"
        \/ m.visibility = "internal" /\ u \notin Foreigners
        \/ m.visibility = "private" /\ u \in m.readers

can_manage(m, u) == u \in m.owners /\ u \notin Foreigners

Reads(f, u) == Stored(f) /\ can_read(meta[f], u)

\* require_manageable_frame: an unreadable frame is a 404, a readable one 403.
Manages(f, u) == Reads(f, u) /\ can_manage(meta[f], u)

---------------------------------------------------------------------------
(* What a write does to the metadata it read (frames/store.py). *)

reader_write_fields(m, readers) ==
  [m EXCEPT !.readers = readers,
            !.visibility = IF readers = {} THEN @ ELSE "private"]

readers_after_visibility(visibility, readers) ==
  IF visibility = "private" THEN readers ELSE {}

\* An update that keeps the readers.
SetVisibilityOnly(m, change) ==
  [m EXCEPT !.visibility = change.visibility, !.text = change.text]

UpdateFields(m, change) ==
  [m EXCEPT !.visibility = change.visibility,
            !.readers = readers_after_visibility(change.visibility, @),
            !.text = change.text]

\* The `mutate` callable a route hands to _retry_metadata_update.
Mutated(m, change) ==
  CASE change.op = "update" -> UpdateFields(m, change)
    [] change.op = "owners" -> [m EXCEPT !.owners = change.list]
    [] change.op = "readers" -> reader_write_fields(m, change.list)
    [] change.op = "published" -> [m EXCEPT !.published = change.value]
    [] change.op = "suggest" ->
         [m EXCEPT !.suggestions[change.id] = [status |-> "open", by |-> change.by]]
    [] change.op = "close" ->
         [m EXCEPT !.suggestions[change.id].status = "closed"]

\* Whether the request prunes the active sets once its write has landed:
\* reconcile_active after every write that may narrow.
Narrows(change) == change.narrows

Idle == [pc |-> "idle", frame |-> "none"]

Become(s, next) == fslot' = [fslot EXCEPT ![s] = next]

Finish(s) == Become(s, Idle)

\* A route that has read and checked the frame and now calls the store.
CallStore(s, f, change) ==
  Become(s, [pc |-> "read", frame |-> f, change |-> change, tries |-> 1])

---------------------------------------------------------------------------
(* The routes.  A route whose check fails answers at once and changes      *)
(* nothing, so only the ones that pass are steps.                          *)

Enabled(s, op) == op \in ops.routes /\ fslot[s] = Idle

create_frame(s, u, f, visibility, others, t) ==
  /\ Enabled(s, "create")
  /\ u \notin Foreigners
  /\ f \in ops.frames /\ meta[f] = NotYet /\ body[f] = NoText
  /\ \A r \in FSlots : fslot[r] = Idle \/ fslot[r].frame # f
  /\ Become(s, [pc |-> "create body", frame |-> f,
                new |-> [owners |-> {u} \cup others, readers |-> {},
                         visibility |-> visibility, published |-> FALSE,
                         text |-> t, etag |-> 1,
                         suggestions |-> [i \in SuggestionIds |-> NoSuggestion]]])
  /\ UNCHANGED <<meta, body, active, excused, groups, ops>>

\* _write_frame: the body first, then the metadata, unconditionally.
WriteNewBody(s) ==
  /\ fslot[s].pc = "create body"
  /\ body' = [body EXCEPT ![fslot[s].frame] = fslot[s].new.text]
  /\ Become(s, [fslot[s] EXCEPT !.pc = "create metadata"])
  /\ UNCHANGED <<meta, active, excused, groups, ops>>

WriteNewMetadata(s) ==
  /\ fslot[s].pc = "create metadata"
  /\ meta' = [meta EXCEPT ![fslot[s].frame] = fslot[s].new]
  /\ Finish(s)
  /\ UNCHANGED <<body, active, excused, groups, ops>>

update_frame(s, u, f, visibility, t) ==
  /\ Enabled(s, "update") /\ Manages(f, u)
  /\ CallStore(s, f, [op |-> "update", visibility |-> visibility,
                      text |-> t, narrows |-> TRUE])
  /\ UNCHANGED <<meta, body, active, excused, groups, ops>>

\* The owner list is built from the frame the route read, and replaces
\* whatever list the store has by then.
SetOwners(s, f, owners, narrows) ==
  CallStore(s, f, [op |-> "owners", list |-> owners, narrows |-> narrows])

replace_owners(s, u, f, owners) ==
  /\ Enabled(s, "owners") /\ Manages(f, u)
  /\ owners # {}
  /\ SetOwners(s, f, owners, TRUE)
  /\ UNCHANGED <<meta, body, active, excused, groups, ops>>

add_owner(s, u, f, email) ==
  /\ Enabled(s, "owners") /\ Manages(f, u)
  /\ SetOwners(s, f, meta[f].owners \cup {email}, FALSE)
  /\ UNCHANGED <<meta, body, active, excused, groups, ops>>

\* 404 for a user who is no owner, 409 last_owner for the last one.
remove_owner(s, u, f, email) ==
  /\ Enabled(s, "owners") /\ Manages(f, u)
  /\ email \in meta[f].owners
  /\ meta[f].owners # {email}
  /\ SetOwners(s, f, meta[f].owners \ {email}, TRUE)
  /\ UNCHANGED <<meta, body, active, excused, groups, ops>>

SetReaders(s, f, readers) ==
  CallStore(s, f, [op |-> "readers", list |-> readers, narrows |-> TRUE])

replace_readers(s, u, f, readers) ==
  /\ Enabled(s, "readers") /\ Manages(f, u)
  /\ SetReaders(s, f, readers)
  /\ UNCHANGED <<meta, body, active, excused, groups, ops>>

add_reader(s, u, f, email) ==
  /\ Enabled(s, "readers") /\ Manages(f, u)
  /\ SetReaders(s, f, meta[f].readers \cup {email})
  /\ UNCHANGED <<meta, body, active, excused, groups, ops>>

remove_reader(s, u, f, email) ==
  /\ Enabled(s, "readers") /\ Manages(f, u)
  /\ email \in meta[f].readers
  /\ SetReaders(s, f, meta[f].readers \ {email})
  /\ UNCHANGED <<meta, body, active, excused, groups, ops>>

publish_frame(s, u, f) ==
  /\ Enabled(s, "publish") /\ Manages(f, u)
  /\ CallStore(s, f, [op |-> "published", value |-> TRUE, narrows |-> FALSE])
  /\ UNCHANGED <<meta, body, active, excused, groups, ops>>

\* A route that forgets reconcile_active.
UnpublishUnreconciled(s, u, f) ==
  /\ Enabled(s, "publish") /\ Manages(f, u)
  /\ CallStore(s, f, [op |-> "published", value |-> FALSE, narrows |-> FALSE])
  /\ UNCHANGED <<meta, body, active, excused, groups, ops>>

unpublish_frame(s, u, f) ==
  /\ Enabled(s, "publish") /\ Manages(f, u)
  /\ CallStore(s, f, [op |-> "published", value |-> FALSE, narrows |-> TRUE])
  /\ UNCHANGED <<meta, body, active, excused, groups, ops>>

\* A suggestion's id is a fresh uuid.
create_suggestion(s, u, f, i) ==
  /\ Enabled(s, "suggest") /\ Reads(f, u)
  /\ meta[f].suggestions[i] = NoSuggestion
  /\ \A r \in FSlots : fslot[r].pc \in {"read", "put"} =>
       ~(fslot[r].change.op = "suggest" /\ fslot[r].change.id = i)
  /\ CallStore(s, f, [op |-> "suggest", id |-> i, by |-> u, narrows |-> FALSE])
  /\ UNCHANGED <<meta, body, active, excused, groups, ops>>

\* Owners close any suggestion, its submitter his own; closing twice is fine.
close_suggestion(s, u, f, i) ==
  /\ Enabled(s, "suggest") /\ Reads(f, u)
  /\ meta[f].suggestions[i] # NoSuggestion
  /\ u \in meta[f].owners \/ u = meta[f].suggestions[i].by
  /\ CallStore(s, f, [op |-> "close", id |-> i, narrows |-> FALSE])
  /\ UNCHANGED <<meta, body, active, excused, groups, ops>>

---------------------------------------------------------------------------
(* _retry_metadata_update. *)

\* Metadata, body and ETag are read; a missing object is FrameNotFoundError.
ReadForUpdate(s) ==
  LET f == fslot[s].frame IN
  /\ fslot[s].pc = "read"
  /\ IF Stored(f) /\ body[f] # NoText
     THEN Become(s, [pc |-> "put", frame |-> f, change |-> fslot[s].change,
                     tries |-> fslot[s].tries, seen |-> meta[f]])
     ELSE Finish(s)
  /\ UNCHANGED <<meta, body, active, excused, groups, ops>>

\* A put without the condition.
IfPresent(s) == Stored(fslot[s].frame)

\* The ETag read is the ETag stored.
IfMatch(s) ==
  /\ Stored(fslot[s].frame)
  /\ meta[fslot[s].frame].etag = fslot[s].seen.etag

AfterPut(s) ==
  CASE fslot[s].change.op = "update" -> "body"
    [] fslot[s].change.op # "update" /\ Narrows(fslot[s].change) -> "holders"
    [] OTHER -> "idle"

\* An owner another request added and this list, read before, leaves out: the
\* write narrows though its route (add_owner) does not prune.
Outrun(f, change) ==
  IF change.op = "owners" /\ ~Narrows(change)
  THEN (meta[f].owners \ change.list) \X {f} ELSE {}

PutMetadata(s) ==
  LET f == fslot[s].frame
      change == fslot[s].change
      new == Mutated(fslot[s].seen, change) IN
  /\ fslot[s].pc = "put"
  /\ IfMatch(s)
  /\ meta[f].etag < MaxPuts
  /\ meta' = [meta EXCEPT ![f] = [new EXCEPT !.etag = meta[f].etag + 1]]
  /\ excused' = excused \cup Outrun(f, change)
  /\ IF AfterPut(s) = "idle"
     THEN Finish(s)
     ELSE Become(s, [pc |-> AfterPut(s), frame |-> f, change |-> change,
                     new |-> new])
  /\ UNCHANGED <<body, active, groups, ops>>

\* 412: read again after a pause, or ConcurrentFrameUpdateError.  An object
\* that is gone is another error, and ends the request.
PutRefused(s) ==
  /\ fslot[s].pc = "put"
  /\ ~IfMatch(s)
  /\ IF Stored(fslot[s].frame) /\ fslot[s].tries < PutAttempts
     THEN Become(s, [pc |-> "read", frame |-> fslot[s].frame,
                     change |-> fslot[s].change, tries |-> fslot[s].tries + 1])
     ELSE Finish(s)
  /\ UNCHANGED <<meta, body, active, excused, groups, ops>>

WriteBody(s) ==
  /\ fslot[s].pc = "body"
  /\ body' = [body EXCEPT ![fslot[s].frame] = fslot[s].change.text]
  /\ Become(s, [fslot[s] EXCEPT !.pc = "holders"])
  /\ UNCHANGED <<meta, active, excused, groups, ops>>

---------------------------------------------------------------------------
(* reconcile_active: the holders are looked up once, then probed against   *)
(* the metadata this request wrote and removed one by one.                 *)

FindHolders(s) ==
  LET f == fslot[s].frame
      lost == {u \in FUsers : f \in active[u] /\ ~can_read(fslot[s].new, u)} IN
  /\ fslot[s].pc = "holders"
  /\ IF lost = {}
     THEN Finish(s)
     ELSE Become(s, [pc |-> "prune", frame |-> f, users |-> lost])
  /\ UNCHANGED <<meta, body, active, excused, groups, ops>>

PruneHolder(s, u) ==
  LET rest == fslot[s].users \ {u} IN
  /\ fslot[s].pc = "prune"
  /\ u \in fslot[s].users
  /\ active' = [active EXCEPT ![u] = @ \ {fslot[s].frame}]
  /\ IF rest = {} THEN Finish(s) ELSE Become(s, [fslot[s] EXCEPT !.users = rest])
  /\ UNCHANGED <<meta, body, excused, groups, ops>>

---------------------------------------------------------------------------
(* normalize_frame_ids and normalize_owners raise for an empty list. *)

Anything(list) == TRUE

NonEmpty(list) == list # {}

---------------------------------------------------------------------------
(* delete_frame: the store's metadata and body, then every active set,     *)
(* then every group.                                                       *)

delete_frame(s, u, f) ==
  /\ Enabled(s, "delete") /\ Manages(f, u)
  /\ Become(s, [pc |-> "delete metadata", frame |-> f])
  /\ UNCHANGED <<meta, body, active, excused, groups, ops>>

\* The body object first: what the store must not do.
DeleteBodyFirst(s) ==
  LET f == fslot[s].frame IN
  /\ fslot[s].pc = "delete metadata"
  /\ body' = [body EXCEPT ![f] = NoText]
  /\ Become(s, [fslot[s] EXCEPT !.pc = "delete active"])
  /\ UNCHANGED <<meta, active, excused, groups, ops>>

\* delete_object is idempotent; the store's own get_frame finds a frame that
\* another request has deleted since missing, and the request ends in a 404.
DeleteMetadata(s) ==
  LET f == fslot[s].frame IN
  /\ fslot[s].pc = "delete metadata"
  /\ \/ /\ Stored(f)
        /\ meta' = [meta EXCEPT ![f] = Gone]
        /\ Become(s, [fslot[s] EXCEPT !.pc = "delete body"])
     \/ /\ ~Stored(f)
        /\ Finish(s)
        /\ UNCHANGED meta
  /\ UNCHANGED <<body, active, excused, groups, ops>>

DeleteBody(s) ==
  /\ fslot[s].pc = "delete body"
  /\ body' = [body EXCEPT ![fslot[s].frame] = NoText]
  /\ Become(s, [fslot[s] EXCEPT !.pc = "delete active"])
  /\ UNCHANGED <<meta, active, excused, groups, ops>>

remove_frame_id(s) ==
  /\ fslot[s].pc = "delete active"
  /\ active' = [u \in FUsers |-> active[u] \ {fslot[s].frame}]
  /\ Become(s, [fslot[s] EXCEPT !.pc = "find groups"])
  /\ UNCHANGED <<meta, body, excused, groups, ops>>

Live(g) == groups[g] \notin {NotYet, Gone}

\* reconcile_groups_after_frame_delete: the rows that name the frame, as they
\* are now, one after the other.
find_groups_containing(s) ==
  LET found == {g \in GroupIds : Live(g) /\ fslot[s].frame \in groups[g].members} IN
  /\ fslot[s].pc = "find groups"
  /\ IF found = {}
     THEN Finish(s)
     ELSE Become(s, [pc |-> "leave groups", frame |-> fslot[s].frame,
                     rows |-> {[group |-> g, members |-> groups[g].members] : g \in found}])
  /\ UNCHANGED <<meta, body, active, excused, groups, ops>>

\* _remove_deleted_member_from_group of a row whose only member this was:
\* delete_group, whatever the row holds by now.  A group that is gone raises,
\* and the rows that are left stay as they are.
DeleteGroupOf(s, row) ==
  LET rest == fslot[s].rows \ {row} IN
  /\ fslot[s].pc = "leave groups"
  /\ row \in fslot[s].rows
  /\ row.members = {fslot[s].frame}
  /\ IF Live(row.group)
     THEN /\ groups' = [groups EXCEPT ![row.group] = Gone]
          /\ IF rest = {} THEN Finish(s) ELSE Become(s, [fslot[s] EXCEPT !.rows = rest])
     ELSE Finish(s) /\ UNCHANGED groups
  /\ UNCHANGED <<meta, body, active, excused, ops>>

\* ... and of any other row: remove_frame reads the row again.
LeaveGroup(s, row) ==
  LET left == groups[row.group].members \ {fslot[s].frame} IN
  /\ fslot[s].pc = "leave groups"
  /\ row \in fslot[s].rows
  /\ row.members # {fslot[s].frame}
  /\ IF Live(row.group) /\ NonEmpty(left)
     THEN Become(s, [pc |-> "write group", frame |-> fslot[s].frame, group |-> row.group,
                     members |-> left, rows |-> fslot[s].rows \ {row}])
     ELSE Finish(s)
  /\ UNCHANGED <<meta, body, active, excused, groups, ops>>

\* _set_frame_ids: the list computed from what was read replaces the stored one.
set_frame_ids(s) ==
  LET g == fslot[s].group IN
  /\ fslot[s].pc = "write group"
  /\ groups' = IF Live(g) THEN [groups EXCEPT ![g].members = fslot[s].members]
               ELSE groups
  /\ IF Live(g) /\ fslot[s].rows # {}
     THEN Become(s, [pc |-> "leave groups", frame |-> fslot[s].frame,
                     rows |-> fslot[s].rows])
     ELSE Finish(s)
  /\ UNCHANGED <<meta, body, active, excused, ops>>

---------------------------------------------------------------------------
(* set_active_frames: every frame is read and checked, then the set is     *)
(* replaced in one statement.                                              *)

set_active_frames(s, u, fs) ==
  /\ Enabled(s, "active")
  /\ \A f \in fs : Reads(f, u)
  /\ fs # active[u]
  /\ Become(s, [pc |-> "activate", user |-> u, frames |-> fs,
                frame |-> "several"])
  /\ UNCHANGED <<meta, body, active, excused, groups, ops>>

WriteActive(s) ==
  LET u == fslot[s].user IN
  /\ fslot[s].pc = "activate"
  /\ active' = [active EXCEPT ![u] = fslot[s].frames]
  /\ excused' = (excused \ ({u} \X FrameIds)) \cup
       ({u} \X {f \in fslot[s].frames : ~Reads(f, u)})
  /\ Finish(s)
  /\ UNCHANGED <<meta, body, groups, ops>>

---------------------------------------------------------------------------
(* routers/frame_groups.py.  Only an owner of the group's tenant manages it. *)

ManagesGroup(g, u) == Live(g) /\ u \in groups[g].owners /\ u \notin Foreigners

\* Every frame is read and must be readable; the row is inserted afterwards.
create_frame_group(s, u, g, fs) ==
  /\ Enabled(s, "groups")
  /\ u \notin Foreigners /\ groups[g] = NotYet
  /\ fs # {} /\ \A f \in fs : Reads(f, u)
  /\ \A r \in FSlots : fslot[r].pc # "insert group"
  /\ Become(s, [pc |-> "insert group", frame |-> "several", group |-> g,
                row |-> [owners |-> {u}, visibility |-> "private", members |-> fs]])
  /\ UNCHANGED <<meta, body, active, excused, groups, ops>>

InsertGroup(s) ==
  /\ fslot[s].pc = "insert group"
  /\ groups' = [groups EXCEPT ![fslot[s].group] = fslot[s].row]
  /\ Finish(s)
  /\ UNCHANGED <<meta, body, active, excused, ops>>

\* A change of the row in one statement: update_group and set_owners.
update_frame_group(s, u, g, visibility) ==
  /\ Enabled(s, "group edits") /\ ManagesGroup(g, u)
  /\ Become(s, [pc |-> "edit visibility", frame |-> "none", group |-> g,
                visibility |-> visibility])
  /\ UNCHANGED <<meta, body, active, excused, groups, ops>>

\* replace_group_owners, add_group_owner and remove_group_owner (409 for the
\* last one): the list is built from the row the route read.
set_group_owners(s, u, g, owners) ==
  /\ Enabled(s, "group edits") /\ ManagesGroup(g, u)
  /\ NonEmpty(owners)
  /\ Become(s, [pc |-> "edit owners", frame |-> "none", group |-> g,
                owners |-> owners])
  /\ UNCHANGED <<meta, body, active, excused, groups, ops>>

EditGroup(s) ==
  LET g == fslot[s].group IN
  /\ fslot[s].pc \in {"edit visibility", "edit owners"}
  /\ groups' = IF ~Live(g) THEN groups
               ELSE IF fslot[s].pc = "edit owners"
                    THEN [groups EXCEPT ![g].owners = fslot[s].owners]
                    ELSE [groups EXCEPT ![g].visibility = fslot[s].visibility]
  /\ Finish(s)
  /\ UNCHANGED <<meta, body, active, excused, ops>>

delete_frame_group(s, u, g) ==
  /\ Enabled(s, "groups") /\ ManagesGroup(g, u)
  /\ Become(s, [pc |-> "delete group", frame |-> "none", group |-> g])
  /\ UNCHANGED <<meta, body, active, excused, groups, ops>>

DeleteGroup(s) ==
  LET g == fslot[s].group IN
  /\ fslot[s].pc = "delete group"
  /\ groups' = IF Live(g) THEN [groups EXCEPT ![g] = Gone] ELSE groups
  /\ Finish(s)
  /\ UNCHANGED <<meta, body, active, excused, ops>>

add_group_frame(s, u, g, f) ==
  /\ Enabled(s, "groups") /\ ManagesGroup(g, u) /\ Reads(f, u)
  /\ Become(s, [pc |-> "add frame", frame |-> f, group |-> g])
  /\ UNCHANGED <<meta, body, active, excused, groups, ops>>

\* 404 for a frame that is no member, 409 last_frame for the only one.
remove_group_frame(s, u, g, f) ==
  /\ Enabled(s, "groups") /\ ManagesGroup(g, u)
  /\ f \in groups[g].members /\ groups[g].members # {f}
  /\ Become(s, [pc |-> "remove frame", frame |-> f, group |-> g])
  /\ UNCHANGED <<meta, body, active, excused, groups, ops>>

\* add_frame and remove_frame read the row again before they write it.
ReadGroup(s) ==
  LET g == fslot[s].group
      new == IF fslot[s].pc = "add frame" THEN groups[g].members \cup {fslot[s].frame}
             ELSE groups[g].members \ {fslot[s].frame} IN
  /\ fslot[s].pc \in {"add frame", "remove frame"}
  /\ IF Live(g) /\ NonEmpty(new)
     THEN Become(s, [pc |-> "write group", frame |-> fslot[s].frame, group |-> g,
                     members |-> new, rows |-> {}])
     ELSE Finish(s)
  /\ UNCHANGED <<meta, body, active, excused, groups, ops>>

---------------------------------------------------------------------------
(* The host of a request stops; what it had still to prune stays.          *)
Crash(s) ==
  /\ fslot[s] # Idle
  /\ excused' = IF fslot[s].pc \in {"body", "holders", "prune", "delete body",
                                    "delete active", "find groups", "leave groups",
                                    "write group"}
                THEN excused \cup (FUsers \X {fslot[s].frame}) ELSE excused
  /\ Finish(s)
  /\ UNCHANGED <<meta, body, active, groups, ops>>

FramesInit ==
  /\ meta = [f \in FrameIds |-> NotYet]
  /\ body = [f \in FrameIds |-> NoText]
  /\ active = [u \in FUsers |-> {}]
  /\ fslot = [s \in FSlots |-> Idle]
  /\ groups = [g \in GroupIds |-> NotYet]
  /\ ops \in Workloads
  /\ excused = {}

Route(s, u, f) ==
  \/ \E v \in Visibilities, others \in SUBSET FUsers, t \in Texts :
       create_frame(s, u, f, v, others, t)
  \/ \E v \in Visibilities, t \in Texts : update_frame(s, u, f, v, t)
  \/ \E owners \in SUBSET FUsers : replace_owners(s, u, f, owners)
  \/ \E email \in FUsers : add_owner(s, u, f, email)
  \/ \E email \in FUsers : remove_owner(s, u, f, email)
  \/ \E readers \in SUBSET FUsers : replace_readers(s, u, f, readers)
  \/ \E email \in FUsers : add_reader(s, u, f, email)
  \/ \E email \in FUsers : remove_reader(s, u, f, email)
  \/ publish_frame(s, u, f)
  \/ unpublish_frame(s, u, f)
  \/ \E i \in SuggestionIds : create_suggestion(s, u, f, i)
  \/ \E i \in SuggestionIds : close_suggestion(s, u, f, i)
  \/ delete_frame(s, u, f)

GroupRoute(s, u, g) ==
  \/ \E fs \in SUBSET FrameIds : create_frame_group(s, u, g, fs)
  \/ \E v \in Visibilities : update_frame_group(s, u, g, v)
  \/ \E owners \in SUBSET FUsers : set_group_owners(s, u, g, owners)
  \/ delete_frame_group(s, u, g)
  \/ \E f \in FrameIds : add_group_frame(s, u, g, f)
  \/ \E f \in FrameIds : remove_group_frame(s, u, g, f)

GroupStep(s) ==
  \/ find_groups_containing(s)
  \/ fslot[s].pc = "leave groups" /\ \E row \in fslot[s].rows : DeleteGroupOf(s, row)
  \/ fslot[s].pc = "leave groups" /\ \E row \in fslot[s].rows : LeaveGroup(s, row)
  \/ set_frame_ids(s)
  \/ InsertGroup(s)
  \/ EditGroup(s)
  \/ DeleteGroup(s)
  \/ ReadGroup(s)

FrameStep(s) ==
  \/ WriteNewBody(s)
  \/ WriteNewMetadata(s)
  \/ ReadForUpdate(s)
  \/ PutMetadata(s)
  \/ PutRefused(s)
  \/ WriteBody(s)
  \/ FindHolders(s)
  \/ \E u \in FUsers : PruneHolder(s, u)
  \/ DeleteMetadata(s)
  \/ DeleteBody(s)
  \/ remove_frame_id(s)
  \/ WriteActive(s)
  \/ Crash(s)

FramesNext ==
  \E s \in FSlots :
    \/ \E u \in FUsers, f \in FrameIds : Route(s, u, f)
    \/ \E u \in FUsers, fs \in SUBSET FrameIds : set_active_frames(s, u, fs)
    \/ \E u \in FUsers, g \in GroupIds : GroupRoute(s, u, g)
    \/ FrameStep(s)
    \/ GroupStep(s)

FramesSpec == FramesInit /\ [][FramesNext]_framesVars

---------------------------------------------------------------------------
(* What must hold. *)

\* No reader ever finds metadata without its body: the two objects of a frame
\* are written body first and removed metadata first, so that no stop between
\* the two writes, and no update beside a delete, leaves metadata alone
\* (store.py _write_frame, delete_frame, _retry_metadata_update).
MetadataHasBody == \A f \in FrameIds : Stored(f) => body[f] # NoText

\* A reader list is stored only with private visibility, whatever updates,
\* reader changes and retries overlap (reader_write_fields,
\* readers_after_visibility), and some owner is always left.
ReadersStayPrivate ==
  \A f \in FrameIds : Stored(f) =>
    /\ meta[f].readers # {} => meta[f].visibility = "private"
    /\ meta[f].owners # {}

\* A suggestion that was stored stays with its frame, and a closed one stays
\* closed, beside any other write of the same metadata object
\* (_retry_metadata_update's IfMatch); and a deleted frame does not return.
SuggestionsKept ==
  \A f \in FrameIds :
    /\ Stored(f) /\ Stored(f)' =>
         \A i \in SuggestionIds :
           /\ meta[f].suggestions[i] # NoSuggestion =>
                meta'[f].suggestions[i] # NoSuggestion
           /\ meta[f].suggestions[i].status = "closed" =>
                meta'[f].suggestions[i].status = "closed"
    /\ meta[f] = Gone => meta'[f] = Gone
SuggestionsSurvive == [][SuggestionsKept]_framesVars

Pruning(f) ==
  \E s \in FSlots :
    /\ fslot[s].pc \in {"body", "holders", "prune", "delete body", "delete active"}
    /\ fslot[s].frame = f

\* A frame a user cannot read (or that is deleted) is in his active set only
\* while a request that prunes it is still running, unless a stopped host cut
\* the pruning off, the user's own set_active_frames had checked it before it
\* narrowed, or an add_owner wrote back an owner list without him
\* (reconcile_active and remove_frame_id after every narrowing write).
UnreadableIsPruned ==
  \A u \in FUsers, f \in FrameIds :
    f \in active[u] /\ ~Reads(f, u) => <<u, f>> \in excused \/ Pruning(f)

\* A group that exists has a member and an owner, whatever deletions of frames
\* and requests of its owners overlap (normalize_frame_ids refuses to empty a
\* list that another request has shortened since the route looked at it).
GroupsNeverEmpty ==
  \A g \in GroupIds : Live(g) => groups[g].members # {} /\ groups[g].owners # {}

\* Once every request has ended, and none was cut off, no group names a deleted
\* frame (reconcile_groups_after_frame_delete: "Prune a deleted Frame from
\* every group it belonged to", or "a stale id would linger forever").
DeletedLeavesGroups ==
  (\A s \in FSlots : fslot[s] = Idle) =>
    \A g \in GroupIds, f \in FrameIds :
      Live(g) /\ f \in groups[g].members /\ meta[f] = Gone =>
        \E u \in FUsers : <<u, f>> \in excused
=============================================================================
