--------------------------- MODULE StockMaterials ---------------------------
(***************************************************************************)
(* The stock materials themselves: created, edited and deleted by          *)
(* warehouse administrators, each with a low-stock policy and the plans    *)
(* that replenish it.  What the ledger does to them is one action (Book);  *)
(* StockLedger has it in detail.                                           *)
(*                                                                         *)
(* Requests are transactions as in PurchasePlans: Begin fixes the snapshot *)
(* every SELECT reads (nothing is locked here), the second step writes and *)
(* commits.  A material is told from others by its name, its specification *)
(* and its unit; the name and the unit stand for the three.                *)
(***************************************************************************)
EXTENDS Integers, FiniteSets, Functions

CONSTANTS
    Requests,      \* requests in progress at the same time
    Names, Units,  \* what identifies a material
    Quantities,    \* balances and minimums
    MaxMaterials,  \* bound: materials created
    MaxDrafts,     \* bound: replenishment plans drafted
    MaxRequests    \* bound: requests sent

VARIABLES
    materials,   \* committed rows: material -> columns, balance, policy, references
    drafts,      \* committed plans: plan -> the material it replenishes, or NoMaterial
    created,     \* AUTO_INCREMENT counter of the materials
    view,        \* per request: its snapshot of materials, or Idle
    begun,       \* how many requests were sent
    mixed        \* ghost: materials whose columns two overlapping edits have written

vars == <<materials, drafts, created, view, begun, mixed>>

Idle == [m \in {0} |-> "no material"]
NoMaterial == 0
NoPolicy == [version |-> 0]

IdentityOf(name, unit) == <<name, unit>>

Init ==
    /\ materials = <<>> /\ drafts = <<>> /\ created = 0
    /\ view = [r \in Requests |-> Idle] /\ begun = 0
    /\ mixed = {}

Begin(r) ==
    /\ view[r] = Idle
    /\ begun < MaxRequests
    /\ begun' = begun + 1
    /\ view' = [view EXCEPT ![r] = materials]
    /\ UNCHANGED <<materials, drafts, created, mixed>>

\* Refused or rolled back.
End(r) ==
    /\ view[r] # Idle
    /\ view' = [view EXCEPT ![r] = Idle]
    /\ UNCHANGED <<materials, drafts, created, begun, mixed>>

\* Materials of the snapshot that are still there: an UPDATE of a row that is gone,
\* and a row that refers to one, roll the request back.
Known(r) == DOMAIN view[r] \cap DOMAIN materials

\* The column is written only where it differs from the loaded value.
Stored(now, loaded, value) == IF value = loaded THEN now ELSE value

\* A table with one row more.
WithRow(rows, i, row) == [x \in DOMAIN rows \cup {i} |-> IF x = i THEN row ELSE rows[x]]

\* The unique key of identity_hash.
HashFree(m, hash) == \A n \in DOMAIN materials \ {m} : materials[n].hash # hash

create_stock_material(r) ==
    \E name \in Names, unit \in Units :
        /\ created < MaxMaterials
        /\ HashFree(created + 1, IdentityOf(name, unit))
        /\ created' = created + 1
        /\ materials' = WithRow(materials, created + 1,
              [name |-> name, unit |-> unit, hash |-> IdentityOf(name, unit), version |-> 1,
               quantity |-> 0, policy |-> NoPolicy, booked |-> FALSE, templated |-> FALSE])
        /\ UNCHANGED <<drafts, mixed>>

\* A faulty edit that does not identify the material anew.
IdentityKept(loaded, name, unit) == loaded.hash
EditedIdentity(loaded, name, unit) == IdentityOf(name, unit)

Identity(row) == <<row.name, row.unit, row.hash>>

\* The row an edit with this name and unit stores over now, having loaded another.
Edited(now, loaded, name, unit) ==
    [now EXCEPT !.name = Stored(@, loaded.name, name),
                !.unit = Stored(@, loaded.unit, unit),
                !.hash = Stored(@, loaded.hash, EditedIdentity(loaded, name, unit)),
                !.version = loaded.version + 1]

Overlapped(now, loaded) == Identity(now) # Identity(loaded)

update_stock_material(r) ==
    \E m \in Known(r), name \in Names, unit \in Units :
        /\ HashFree(m, Edited(materials[m], view[r][m], name, unit).hash)
        /\ materials' = [materials EXCEPT ![m] = Edited(@, view[r][m], name, unit)]
        /\ mixed' = mixed \cup (IF Overlapped(materials[m], view[r][m]) THEN {m} ELSE {})
        /\ UNCHANGED <<drafts, created>>

\* Operations are looked for in the snapshot; a line booked since, or a plan
\* template, holds the row by its foreign key.  Plans are unlinked.
delete_stock_material(r) ==
    \E m \in Known(r) :
        /\ ~view[r][m].booked
        /\ ~materials[m].booked /\ ~materials[m].templated
        /\ materials' = Restrict(materials, DOMAIN materials \ {m})
        /\ drafts' = [p \in DOMAIN drafts |-> IF drafts[p] = m THEN NoMaterial ELSE drafts[p]]
        /\ UNCHANGED <<created, mixed>>

\* The first policy is inserted, and refused if another request was first; later
\* ones count on the version loaded.
set_policy(r) ==
    \E m \in Known(r), minimum \in Quantities, enabled \in BOOLEAN :
        LET loaded == view[r][m].policy
            now == materials[m].policy
        IN  /\ loaded = NoPolicy => now = NoPolicy
            /\ materials' = [materials EXCEPT ![m].policy =
                   IF now = NoPolicy THEN [minimum |-> minimum, enabled |-> enabled, version |-> 1]
                   ELSE [minimum |-> Stored(now.minimum, loaded.minimum, minimum),
                         enabled |-> Stored(now.enabled, loaded.enabled, enabled),
                         version |-> loaded.version + 1]]
            /\ UNCHANGED <<drafts, created, mixed>>

Low(row) == row.policy # NoPolicy /\ row.policy.enabled /\ row.quantity <= row.policy.minimum

\* A plan for a material that is low in the snapshot (numbered as in PurchasePlans).
create_replenishment_draft(r) ==
    \E m \in Known(r) :
        /\ Low(view[r][m])
        /\ Cardinality(DOMAIN drafts) < MaxDrafts
        /\ drafts' = WithRow(drafts, Cardinality(DOMAIN drafts) + 1, m)
        /\ UNCHANGED <<materials, created, mixed>>

\* The ledger books the material: an operation line refers to it from then on.
Book ==
    \E m \in DOMAIN materials, quantity \in Quantities :
        /\ materials' = [materials EXCEPT ![m].quantity = quantity, ![m].booked = TRUE]
        /\ UNCHANGED <<drafts, created, view, begun, mixed>>

\* A plan template is linked to the material.
Template ==
    \E m \in DOMAIN materials :
        /\ materials' = [materials EXCEPT ![m].templated = TRUE]
        /\ UNCHANGED <<drafts, created, view, begun, mixed>>

Commit(r) ==
    /\ view[r] # Idle
    /\ \/ create_stock_material(r) \/ update_stock_material(r) \/ delete_stock_material(r)
       \/ set_policy(r) \/ create_replenishment_draft(r)
    /\ view' = [view EXCEPT ![r] = Idle]
    /\ UNCHANGED begun

Next == (\E r \in Requests : Begin(r) \/ End(r) \/ Commit(r)) \/ Book \/ Template

Spec == Init /\ [][Next]_vars

-----------------------------------------------------------------------------
(* Properties.                                                              *)

\* The unique key and the foreign keys hold: no two rows have one hash, and a plan
\* refers to a material that exists or to none.
TypeOK ==
    /\ DOMAIN materials \subseteq 1..created /\ created \in 0..MaxMaterials
    /\ \A m \in DOMAIN materials :
          /\ HashFree(m, materials[m].hash)
          /\ materials[m].name \in Names /\ materials[m].unit \in Units
          /\ materials[m].version \in 1..(MaxRequests + 1)
          /\ materials[m].policy = NoPolicy \/ materials[m].policy.minimum \in Quantities
    /\ Range(drafts) \subseteq DOMAIN materials \cup {NoMaterial}
    /\ begun \in 0..MaxRequests

\* No two materials have one name and unit, whatever sequence of creations, edits
\* and deletions led there, as long as edits of a material do not overlap: two
\* that do each store their own columns and hash and leave a row whose hash is
\* not that of its columns.
OneMaterialPerIdentity ==
    \A m, n \in DOMAIN materials \ mixed :
        materials[m].name = materials[n].name /\ materials[m].unit = materials[n].unit => m = n
=============================================================================
