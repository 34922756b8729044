----------------------------- MODULE GroupViews -----------------------------
(***************************************************************************)
(* Who sees a Frame Group (frames/groups.py, frames/access.py,             *)
(* routers/frame_groups.py), as its member Frames are published, narrowed, *)
(* deleted or damaged after they were bundled.                             *)
(*                                                                         *)
(* A group stores its own visibility and its members' ids; the audience is *)
(* derived on every read from the members as they are.  The store here is  *)
(* InMemoryFrameGroupStore, whose operations are atomic; Frames models the *)
(* interleavings of the Postgres store.                                    *)
(***************************************************************************)
EXTENDS Naturals, Sequences

CONSTANTS
  Users,         \* callers
  Tenant,        \* [Users -> tenants]: (org_id, workspace_id)
  FrameIds, GroupIds,
  MaxOps         \* bound

VARIABLES
  frames,    \* [FrameIds -> a frame, Absent or Damaged]
  items,     \* [GroupIds -> a group or Absent]
  history,   \* [GroupIds -> events recorded]
  read,      \* a history was served to a caller who may not read the group (history)
  ops
groupVars == <<frames, items, history, read, ops>>

Private == 0
Internal == 1
Public == 2
Visibilities == {Private, Internal, Public}   \* BROADNESS

Absent == [state |-> "absent"]
Damaged == [state |-> "damaged"]
NoRows == <<>>

Live(f) == frames[f].state = "frame"
Exists(g) == items[g].state = "group"

---------------------------------------------------------------------------
(* access.py and the projection.  A private frame's readers are left out: a *)
(* group with a private member is for its owners.                          *)

can_read(f, u) ==
  \/ u \in frames[f].owners
  \/ /\ frames[f].published
     /\ \/ frames[f].visibility = Public
        \/ frames[f].visibility = Internal /\ frames[f].tenant = Tenant[u]

Least(S) == CHOOSE x \in S : \A y \in S : x <= y

OwnVisibility(g) == items[g].visibility
\* effective_group_visibility, of the members that can be read
Effective(g) ==
  Least({items[g].visibility} \cup {frames[f].visibility : f \in {m \in items[g].members : Live(m)}})

IfPresent(f) == Live(f) => frames[f].published
\* compute_derived: a member that is missing or cannot be decoded is not published.
Published(f) == Live(f) /\ frames[f].published
AllPublished(g) == \A f \in items[g].members : Published(f)

can_read_group(g, u) ==
  \/ u \in items[g].owners
  \/ /\ AllPublished(g)
     /\ \/ Effective(g) = Public
        \/ Effective(g) = Internal /\ items[g].tenant = Tenant[u]

can_manage_group(g, u) == u \in items[g].owners /\ items[g].tenant = Tenant[u]

\* require_readable_group, require_manageable_group
Readable(g, u) == Exists(g) /\ can_read_group(g, u)
Manageable(g, u) == Readable(g, u) /\ can_manage_group(g, u)
ReadableFrame(f, u) == Live(f) /\ can_read(f, u)

---------------------------------------------------------------------------
(* Frames, as their owners change them *)

Op == ops < MaxOps /\ ops' = ops + 1

CreateFrame(f, u) ==
  /\ Op /\ frames[f] = Absent
  /\ frames' = [frames EXCEPT ![f] = [state |-> "frame", tenant |-> Tenant[u], owners |-> {u},
                                      published |-> FALSE, visibility |-> Private]]
  /\ UNCHANGED <<items, history, read>>

ChangeFrame(f, u, published, visibility) ==
  /\ Op /\ Live(f) /\ u \in frames[f].owners
  /\ frames' = [frames EXCEPT ![f].published = published, ![f].visibility = visibility]
  /\ UNCHANGED <<items, history, read>>

\* Deleted, its groups not reconciled yet; or its object no longer decodes.
LoseFrame(f) ==
  /\ Op /\ Live(f)
  /\ frames' \in {[frames EXCEPT ![f] = Absent], [frames EXCEPT ![f] = Damaged]}
  /\ UNCHANGED <<items, history, read>>

---------------------------------------------------------------------------
(* Groups *)

record_group_history(g, event) == history' = [history EXCEPT ![g] = Append(@, event)]

create_group(g, u, visibility, members) ==
  /\ Op /\ items[g] = Absent /\ history[g] = NoRows
  /\ members # {} /\ \A f \in members : ReadableFrame(f, u)
  /\ items' = [items EXCEPT ![g] = [state |-> "group", tenant |-> Tenant[u], owners |-> {u},
                                    visibility |-> visibility, members |-> members]]
  /\ record_group_history(g, "created")
  /\ UNCHANGED <<frames, read>>

update_group(g, u, visibility) ==
  /\ Op /\ Manageable(g, u)
  /\ items' = [items EXCEPT ![g].visibility = visibility]
  /\ record_group_history(g, "updated")
  /\ UNCHANGED <<frames, read>>

set_owners(g, u, owners) ==
  /\ Op /\ Manageable(g, u) /\ owners # {}
  /\ items' = [items EXCEPT ![g].owners = owners]
  /\ record_group_history(g, "owners_changed")
  /\ UNCHANGED <<frames, read>>

\* add_group_frame: a frame the caller can read
Bundles(f, u) == ReadableFrame(f, u)

add_frame(g, u, f) ==
  /\ Op /\ Manageable(g, u) /\ Bundles(f, u)
  /\ items' = [items EXCEPT ![g].members = @ \cup {f}]
  /\ record_group_history(g, "frame_added")
  /\ UNCHANGED <<frames, read>>

\* normalize_frame_ids refuses an empty group.
remove_frame(g, u, f) ==
  /\ Op /\ Manageable(g, u) /\ f \in items[g].members /\ items[g].members # {f}
  /\ items' = [items EXCEPT ![g].members = @ \ {f}]
  /\ record_group_history(g, "frame_removed")
  /\ UNCHANGED <<frames, read>>

delete_group(g, u) ==
  /\ Op /\ Manageable(g, u)
  /\ items' = [items EXCEPT ![g] = Absent]
  /\ record_group_history(g, "deleted")
  /\ UNCHANGED <<frames, read>>

WithoutTheGroup(g, u) == history[g] # NoRows
\* get_group_history: authorized against the group as it is, or not served.
MayReadHistory(g, u) == Readable(g, u)

get_group_history(g, u) ==
  /\ MayReadHistory(g, u)
  /\ read' = (read \/ ~Readable(g, u))
  /\ UNCHANGED <<frames, items, history, ops>>

GroupInit ==
  /\ frames = [f \in FrameIds |-> Absent]
  /\ items = [g \in GroupIds |-> Absent]
  /\ history = [g \in GroupIds |-> NoRows]
  /\ read = FALSE /\ ops = 0

GroupNext ==
  \/ \E f \in FrameIds, u \in Users :
       \/ CreateFrame(f, u)
       \/ \E published \in BOOLEAN, visibility \in Visibilities : ChangeFrame(f, u, published, visibility)
       \/ \E g \in GroupIds : add_frame(g, u, f) \/ remove_frame(g, u, f)
  \/ \E f \in FrameIds : LoseFrame(f)
  \/ \E g \in GroupIds, u \in Users :
       \/ \E visibility \in Visibilities :
            \/ update_group(g, u, visibility)
            \/ \E members \in SUBSET FrameIds : create_group(g, u, visibility, members)
       \/ \E owners \in SUBSET Users : set_owners(g, u, owners)
       \/ delete_group(g, u) \/ get_group_history(g, u)

GroupSpec == GroupInit /\ [][GroupNext]_groupVars

---------------------------------------------------------------------------
(* Properties *)

Seen(g, u) == Exists(g) /\ u \notin items[g].owners /\ can_read_group(g, u)

\* Whatever became of the members since they were bundled, a group is seen by
\* somebody who does not own it only if every member is there and published, and
\* each member of the group's own tenant is one that person may read
\* (compute_derived, can_read_group); and a
\* history is served only with its group (get_group_history).
AudienceIsNarrow ==
  /\ \A g \in GroupIds, u \in Users :
       Seen(g, u) =>
         \A f \in items[g].members :
           Live(f) /\ frames[f].published /\ (frames[f].tenant = items[g].tenant => can_read(f, u))
  /\ ~read

\* groups.py:179: "A group is never more visible than its narrowest member".
NeverMoreVisible ==
  \A g \in GroupIds, u \in Users :
    Seen(g, u) => \A f \in items[g].members : Live(f) /\ can_read(f, u)
=============================================================================
