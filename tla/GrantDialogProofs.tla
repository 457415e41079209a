------------------------- MODULE GrantDialogProofs -------------------------
(***************************************************************************)
(* What the Manage Privileges dialog keeps true for any cluster, any       *)
(* presets and any number of edits and executions: the requests it sends   *)
(* are acceptable, at most one execution is the dialog's own, and a quiet  *)
(* preview is that of the form.                                            *)
(***************************************************************************)
EXTENDS GrantDialog, TLAPS

-----------------------------------------------------------------------------
(* Forms, grants and rows whose privileges fit the type of their object.   *)

FittingForms == {f \in Form : f.privileges \subseteq Fits[f.objectType]}
FittingGrants == {g \in Grants : g.privilege \in Fits[g.object.type]}
FittingRows == {r \in Rows : r.grant \in FittingGrants}

GoodRequest(q) ==
  /\ q.name \in Names /\ q.role \in Roles \cup {Blank}
  /\ q.kind \in {"PRIVILEGE", "ROLE"}
  /\ Acceptable(q)

PreviewFields == {"request", "last"}
LookupFields == {"name", "type", "read", "rows", "last"}
ShownFields == {"rows", "last", "failed"}
RunFields == {"request", "previewed", "keep", "mine", "landed", "no"}

ClusterFits == held \subseteq FittingGrants /\ parents \subseteq Names \X Roles
FormsFit == prefill \in FittingForms /\ form \in FittingForms \cup {None}
LookupsFit == \A l \in lookups : DOMAIN l = LookupFields /\ l.rows \subseteq FittingRows
ShownFits == DOMAIN shown = ShownFields /\ shown.rows \subseteq FittingRows
PreviewsAreGood ==
  \A p \in previews : DOMAIN p = PreviewFields /\ GoodRequest(p.request)
RunsAreGood == \A r \in runs : DOMAIN r = RunFields /\ GoodRequest(r.request)

FitInv ==
  ClusterFits /\ FormsFit /\ LookupsFit /\ ShownFits /\ PreviewsAreGood /\ RunsAreGood

(* Who the executions belong to, and what only a mounted body has.         *)
MountInv ==
  /\ \A r \in runs : DOMAIN r = RunFields
  /\ \A r, s \in runs : r.mine /\ s.mine => r = s
  /\ executing <=> \E r \in runs : r.mine
  /\ executing => confirming
  /\ confirming \/ previewDue \/ grantsDue => Mounted
  /\ Mounted => open /\ loggedIn

LEMMA NegationIsBoolean == ASSUME NEW x PROVE (~x) \in BOOLEAN
  BY Zenon

LEMMA NamesAreTyped == \A n \in Names : TypeOf(n) \in {"USER", "ROLE"}
  BY DEF TypeOf

LEMMA EmptyFormFits == EmptyForm \in FittingForms
<1>1. FALSE \in BOOLEAN
  OBVIOUS
<1>2. EmptyForm \in Form
  BY <1>1 DEF EmptyForm, Form, ObjectTypes
<1>3. QED
  BY <1>2 DEF EmptyForm, FittingForms

(* Field by field, what an edit may do to a form that fits.                *)
LEMMA EditedFits ==
  ASSUME NEW f \in FittingForms
  PROVE  /\ \A a \in {"GRANT", "REVOKE"} : [f EXCEPT !.action = a] \in FittingForms
         /\ \A k \in {"PRIVILEGE", "ROLE"} : [f EXCEPT !.kind = k] \in FittingForms
         /\ \A t \in {"USER", "ROLE"} : [f EXCEPT !.type = t] \in FittingForms
         /\ \A n \in Names \cup {Blank} : [f EXCEPT !.name = n] \in FittingForms
         /\ \A n \in Names, t \in {"USER", "ROLE"} :
              [f EXCEPT !.name = n, !.type = t] \in FittingForms
         /\ \A r \in Roles : [f EXCEPT !.role = r] \in FittingForms
         /\ \A t \in ObjectTypes :
              [f EXCEPT !.objectType = t, !.privileges = {}] \in FittingForms
         /\ \A p \in Places \cup {Blank} : [f EXCEPT !.place = p] \in FittingForms
         /\ \A t \in ObjectTypes, p \in Places \cup {Blank} : \A ps \in SUBSET Fits[t] :
              [f EXCEPT !.objectType = t, !.place = p, !.privileges = ps] \in FittingForms
         /\ \A ps \in SUBSET Fits[f.objectType] : [f EXCEPT !.privileges = ps] \in FittingForms
         /\ \A b \in BOOLEAN : [f EXCEPT !.grantOption = b] \in FittingForms
         /\ \A b \in BOOLEAN :
              [f EXCEPT !.privileges = {}, !.grantOption = b] \in FittingForms
<1> USE DialogConstants DEF FittingForms, Form
<1>1. \A a \in {"GRANT", "REVOKE"} : [f EXCEPT !.action = a] \in FittingForms
  OBVIOUS
<1>2. \A k \in {"PRIVILEGE", "ROLE"} : [f EXCEPT !.kind = k] \in FittingForms
  OBVIOUS
<1>3. \A t \in {"USER", "ROLE"} : [f EXCEPT !.type = t] \in FittingForms
  OBVIOUS
<1>4. \A n \in Names \cup {Blank} : [f EXCEPT !.name = n] \in FittingForms
  OBVIOUS
<1>5. \A n \in Names, t \in {"USER", "ROLE"} :
        [f EXCEPT !.name = n, !.type = t] \in FittingForms
  OBVIOUS
<1>6. \A r \in Roles : [f EXCEPT !.role = r] \in FittingForms
  OBVIOUS
<1>7. \A t \in ObjectTypes : [f EXCEPT !.objectType = t, !.privileges = {}] \in FittingForms
  OBVIOUS
<1>8. \A p \in Places \cup {Blank} : [f EXCEPT !.place = p] \in FittingForms
  OBVIOUS
<1>9. \A t \in ObjectTypes, p \in Places \cup {Blank} : \A ps \in SUBSET Fits[t] :
        [f EXCEPT !.objectType = t, !.place = p, !.privileges = ps] \in FittingForms
  OBVIOUS
<1>10. \A ps \in SUBSET Fits[f.objectType] : [f EXCEPT !.privileges = ps] \in FittingForms
  OBVIOUS
<1>11. \A b \in BOOLEAN : [f EXCEPT !.grantOption = b] \in FittingForms
  OBVIOUS
<1>12. \A b \in BOOLEAN : [f EXCEPT !.privileges = {}, !.grantOption = b] \in FittingForms
  OBVIOUS
<1>13. QED
  BY <1>1, <1>2, <1>3, <1>4, <1>5, <1>6, <1>7, <1>8, <1>9, <1>10, <1>11, <1>12

(* buildRequest makes nothing of a form, or an acceptable request.         *)
LEMMA BuildRequestIsGood ==
  ASSUME NEW f \in FittingForms, BuildRequest(f) # None
  PROVE  GoodRequest(BuildRequest(f))
<1> DEFINE q == BuildRequest(f)
<1>1. /\ Complete(f)
      /\ q.kind = f.kind /\ q.name = f.name /\ q.action = f.action
      /\ q.object = IF f.kind = "ROLE" THEN None ELSE FormObject(f)
      /\ q.privileges = IF f.kind = "ROLE" THEN {} ELSE f.privileges
      /\ q.role = IF f.kind = "ROLE" THEN f.role ELSE Blank
  BY DEF BuildRequest
<1>2. q.grantOption => f.kind = "PRIVILEGE" /\ f.action = "GRANT"
  BY DEF BuildRequest
<1>3. q.name \in Names /\ q.name # Blank
  BY <1>1, DialogConstants DEF Complete, FittingForms, Form
<1>4. q.kind \in {"PRIVILEGE", "ROLE"} /\ q.role \in Roles \cup {Blank}
  BY <1>1 DEF FittingForms, Form
<1>5. CASE f.kind = "ROLE"
  BY <1>1, <1>2, <1>3, <1>4, <1>5 DEF GoodRequest, Acceptable, Complete
<1>6. CASE f.kind # "ROLE"
  <2>1. f.kind = "PRIVILEGE" /\ f.privileges # {} /\ FormObject(f) # None
    BY <1>1, <1>6 DEF Complete, FittingForms, Form
  <2>2. FormObject(f) \in Objects /\ FormObject(f).type = f.objectType
    BY <2>1, DialogConstants DEF FormObject, Objects, ObjectTypes, FittingForms, Form
  <2>3. f.privileges \subseteq Fits[f.objectType]
    BY DEF FittingForms
  <2>4. q.object \in Objects /\ q.privileges # {} /\ q.privileges \subseteq Fits[q.object.type]
    BY <1>1, <1>6, <2>1, <2>2, <2>3
  <2>5. q.action = "REVOKE" => ~q.grantOption
    BY <1>1, <1>2
  <2>6. QED
    BY <1>1, <1>3, <1>4, <1>6, <2>4, <2>5 DEF GoodRequest, Acceptable
<1>7. QED
  BY <1>5, <1>6

LEMMA RowsOfFit ==
  ASSUME ClusterFits, NEW n, NEW t PROVE RowsOf(n, t) \subseteq FittingRows
<1>1. ASSUME NEW g \in held PROVE [grant |-> g, source |-> "direct"] \in FittingRows
  BY <1>1 DEF ClusterFits, FittingGrants, FittingRows, Rows
<1>2. ASSUME NEW g \in held, NEW m, <<m, g.grantee>> \in parents
      PROVE  [grant |-> g, source |-> g.grantee] \in FittingRows
  BY <1>2 DEF ClusterFits, FittingGrants, FittingRows, Rows
<1>3. QED
  BY <1>1, <1>2 DEF RowsOf

-----------------------------------------------------------------------------
(* The initial state, and the parts of the steps that move a form, a       *)
(* lookup, a preview or an execution.                                      *)

LEMMA FitInit == Init => FitInv
<1> SUFFICES ASSUME Init PROVE FitInv
  OBVIOUS
<1>1. ClusterFits
  BY DialogConstants DEF Init, ClusterFits, FittingGrants
<1>2. FormsFit
  BY EmptyFormFits DEF Init, FormsFit
<1>3. LookupsFit /\ PreviewsAreGood /\ RunsAreGood
  BY DEF Init, LookupsFit, PreviewsAreGood, RunsAreGood
<1>4. ShownFits
  BY DEF Init, ShownFits, NothingShown, ShownFields
<1>5. QED
  BY <1>1, <1>2, <1>3, <1>4 DEF FitInv

LEMMA PrefillsFit == ASSUME ClusterFits PROVE Prefills \subseteq FittingForms
<1>1. EmptyForm \in FittingForms
  BY EmptyFormFits
<1>2. ASSUME NEW n \in Names
      PROVE  [EmptyForm EXCEPT !.name = n, !.type = TypeOf(n)] \in FittingForms
  BY <1>1, EditedFits, NamesAreTyped
<1>3. ASSUME NEW o \in Objects
      PROVE  [EmptyForm EXCEPT !.objectType = o.type, !.place = o.place] \in FittingForms
  BY <1>1 DEF Objects, FittingForms, Form, EmptyForm
<1>4. ASSUME NEW g \in held
      PROVE  [EmptyForm EXCEPT !.action = "REVOKE", !.name = g.grantee,
                !.type = TypeOf(g.grantee), !.objectType = g.object.type,
                !.place = g.object.place, !.privileges = {g.privilege}] \in FittingForms
  <2>1. /\ g.grantee \in Names /\ TypeOf(g.grantee) \in {"USER", "ROLE"}
        /\ g.object.type \in ObjectTypes /\ g.object.place \in Places \cup {Blank}
        /\ g.privilege \in Privileges /\ g.privilege \in Fits[g.object.type]
    BY <1>4, NamesAreTyped DEF ClusterFits, FittingGrants, Grants, Objects
  <2>2. QED
    BY <1>1, <2>1 DEF FittingForms, Form
<1>5. QED
  BY <1>1, <1>2, <1>3, <1>4 DEF Prefills

LEMMA EditFits == ASSUME FitInv, Edit PROVE form' \in FittingForms
<1> USE DEF FitInv
<1>1. form \in FittingForms
  BY DEF Edit, Mounted, FormsFit
<1>2. CASE SwitchAction
  BY <1>1, <1>2, EditedFits DEF SwitchAction, Change
<1>3. CASE SwitchKind
  BY <1>1, <1>3, EditedFits DEF SwitchKind, Change
<1>4. CASE SwitchType
  BY <1>1, <1>4, EditedFits DEF SwitchType, Change
<1>5. CASE TypeName
  BY <1>1, <1>5, EditedFits DEF TypeName, Change
<1>6. CASE PickGrantee
  <2>1. PICK n \in Names : form' = [form EXCEPT !.name = n, !.type = TypeOf(n)]
    BY <1>6 DEF PickGrantee, Change
  <2>2. TypeOf(n) \in {"USER", "ROLE"}
    BY NamesAreTyped
  <2>3. QED
    BY <1>1, <2>1, <2>2, EditedFits
<1>7. CASE JumpToSourceRole
  <2>1. PICK r \in InheritedRows : form' = [form EXCEPT !.name = r.source, !.type = "ROLE"]
    BY <1>7 DEF JumpToSourceRole, Change
  <2>2. r.source \in Names
    BY DEF InheritedRows, DirectRows, ShownFits, FittingRows, Rows, Names
  <2>3. QED
    BY <1>1, <2>1, <2>2, EditedFits
<1>8. CASE PickRole
  BY <1>1, <1>8, EditedFits DEF PickRole, Change
<1>9. CASE PickObjectType
  BY <1>1, <1>9, EditedFits DEF PickObjectType, Change
<1>10. CASE TypePlace
  BY <1>1, <1>10, EditedFits DEF TypePlace, Change
<1>11. CASE TogglePrivilege
  <2>1. PICK p \in Fits[form.objectType] :
          form' = [form EXCEPT !.privileges = IF p \in @ THEN @ \ {p} ELSE @ \cup {p}]
    BY <1>11 DEF TogglePrivilege, Change
  <2>2. form.privileges \subseteq Fits[form.objectType]
    BY <1>1 DEF FittingForms
  <2>3. PICK ps \in SUBSET Fits[form.objectType] :
          form' = [form EXCEPT !.privileges = ps]
    BY <2>1, <2>2
  <2>4. QED
    BY <1>1, <2>3, EditedFits
<1>12. CASE ApplyPreset
  <2>1. PICK ps \in SUBSET Fits[form.objectType] :
          form' = [form EXCEPT !.privileges = ps]
    BY <1>12 DEF ApplyPreset, Change
  <2>2. QED
    BY <1>1, <2>1, EditedFits
<1>13. CASE SetGrantOption
  <2>1. form' = [form EXCEPT !.grantOption = ~form.grantOption]
    BY <1>13 DEF SetGrantOption, Change
  <2>2. (~form.grantOption) \in BOOLEAN
    BY NegationIsBoolean
  <2>3. QED
    BY <1>1, <2>1, <2>2, EditedFits
<1>14. CASE LoadGrantIntoForm
  <2>1. PICK r \in DirectRows :
          form' = [form EXCEPT !.objectType = r.grant.object.type,
                     !.place = r.grant.object.place, !.privileges = {r.grant.privilege}]
    BY <1>14 DEF LoadGrantIntoForm, Change
  <2>2. /\ r.grant.object.type \in ObjectTypes
        /\ r.grant.object.place \in Places \cup {Blank}
        /\ r.grant.privilege \in Fits[r.grant.object.type]
    BY DEF DirectRows, ShownFits, FittingRows, FittingGrants, Grants, Objects
  <2>3. QED
    BY <1>1, <2>1, <2>2, EditedFits
<1>15. QED
  BY <1>2, <1>3, <1>4, <1>5, <1>6, <1>7, <1>8, <1>9, <1>10, <1>11, <1>12, <1>13, <1>14
     DEF Edit

(* A statement keeps the cluster within the types of its objects.          *)
LEMMA LandingFits == ASSUME FitInv, RunLands PROVE ClusterFits' /\ RunsAreGood'
<1> USE DEF FitInv
<1>1. PICK r \in runs :
        LET q == r.request
            rows == {[grantee |-> q.name, object |-> q.object, privilege |-> p] :
                       p \in q.privileges}
        IN /\ runs' = (runs \ {r}) \cup {[r EXCEPT !.landed = TRUE]}
           /\ IF q.kind = "ROLE"
              THEN parents' \subseteq parents \cup {<<q.name, q.role>>} /\ held' = held
              ELSE held' \subseteq held \cup rows /\ parents' = parents
  BY DEF RunLands
<1> DEFINE q == r.request
<1>2. GoodRequest(q) /\ DOMAIN r = RunFields
  BY DEF RunsAreGood
<1>3. RunsAreGood'
  <2>1. DOMAIN [r EXCEPT !.landed = TRUE] = RunFields
    BY <1>2
  <2>2. [r EXCEPT !.landed = TRUE].request = q
    BY <1>2 DEF RunFields
  <2>3. QED
    BY <1>1, <1>2, <2>1, <2>2 DEF RunsAreGood, GoodRequest, Acceptable
<1>4. CASE q.kind = "ROLE"
  <2>1. q.name \in Names /\ q.role \in Roles
    BY <1>2, <1>4 DEF GoodRequest, Acceptable
  <2>2. QED
    BY <1>1, <1>3, <1>4, <2>1 DEF ClusterFits
<1>5. CASE q.kind # "ROLE"
  <2>1. /\ q.name \in Names /\ q.object \in Objects
        /\ q.privileges \subseteq Fits[q.object.type]
    BY <1>2, <1>5 DEF GoodRequest, Acceptable
  <2>2. q.object.type \in ObjectTypes
    BY <2>1 DEF Objects
  <2>3. \A p \in q.privileges :
          [grantee |-> q.name, object |-> q.object, privilege |-> p] \in FittingGrants
    BY <2>1, <2>2, DialogConstants DEF FittingGrants, Grants
  <2>4. QED
    BY <1>1, <1>3, <1>5, <2>3 DEF ClusterFits
<1>6. QED
  BY <1>4, <1>5

LEMMA OlderKeeps ==
  ASSUME NEW S, NEW fields, "last" \in fields,
         \A q \in S : DOMAIN q = fields,
         NEW p \in Older(S)
  PROVE  /\ DOMAIN p = fields
         /\ \E q \in S : \A k \in fields \ {"last"} : p[k] = q[k]
<1>1. PICK q \in S : p = [q EXCEPT !.last = FALSE]
  BY DEF Older
<1>2. QED
  BY <1>1

LEMMA OrphanedKeep ==
  ASSUME NEW S, \A r \in S : DOMAIN r = RunFields /\ GoodRequest(r.request)
  PROVE  \A r \in Orphaned(S) : DOMAIN r = RunFields /\ GoodRequest(r.request)
<1> SUFFICES ASSUME NEW r \in Orphaned(S)
             PROVE  DOMAIN r = RunFields /\ GoodRequest(r.request)
  OBVIOUS
<1>1. PICK o \in S : r = [o EXCEPT !.mine = FALSE]
  BY DEF Orphaned
<1>2. DOMAIN r = RunFields /\ r.request = o.request
  BY <1>1 DEF RunFields
<1>3. QED
  BY <1>1, <1>2

LEMMA EmptyBodyFits ==
  (Mount(form') \/ Unmount) => LookupsFit' /\ ShownFits' /\ PreviewsAreGood'
  BY DEF Mount, Unmount, LookupsFit, ShownFits, PreviewsAreGood, NothingShown, ShownFields

LEMMA FitNext == FitInv /\ MountInv /\ [Next]_vars => FitInv'
<1> SUFFICES ASSUME FitInv, MountInv, [Next]_vars PROVE FitInv'
  OBVIOUS
<1>0. ClusterFits /\ FormsFit /\ LookupsFit /\ ShownFits /\ PreviewsAreGood /\ RunsAreGood
  BY DEF FitInv
<1> DEFINE SameBody == UNCHANGED <<previews, lookups, shown>>
<1>a. UNCHANGED cluster => ClusterFits'
  BY <1>0 DEF cluster, ClusterFits
<1>b. UNCHANGED <<prefill, form>> => FormsFit'
  BY <1>0 DEF FormsFit
<1>c. UNCHANGED lookups => LookupsFit'
  BY <1>0 DEF LookupsFit
<1>d. UNCHANGED shown => ShownFits'
  BY <1>0 DEF ShownFits
<1>e. UNCHANGED previews => PreviewsAreGood'
  BY <1>0 DEF PreviewsAreGood
<1>f. runs' \subseteq runs \/ runs' = Orphaned(runs) => RunsAreGood'
  BY <1>0, OrphanedKeep DEF RunsAreGood
<1>1. ASSUME NEW f \in Prefills, OpenWizard(f) PROVE FitInv'
  <2>1. f \in FittingForms
    BY <1>0, PrefillsFit
  <2>2. FormsFit'
    BY <1>1, <2>1 DEF OpenWizard, Mount, FormsFit
  <2>3. Mount(form')
    BY <1>1 DEF OpenWizard, Mount
  <2>4. UNCHANGED cluster /\ runs' \subseteq runs
    BY <1>1 DEF OpenWizard, executions
  <2>5. QED
    BY <1>a, <1>f, <2>2, <2>3, <2>4, EmptyBodyFits DEF FitInv
<1>2. CASE CloseByEscape \/ Cancel
  <2>1. FormsFit'
    BY <1>2, EmptyFormFits DEF CloseByEscape, Cancel, Close, Unmount, FormsFit
  <2>2. UNCHANGED cluster /\ Unmount /\ (runs' \subseteq runs \/ runs' = Orphaned(runs))
    BY <1>2 DEF CloseByEscape, Cancel, Close, executions
  <2>3. QED
    BY <1>a, <1>f, <2>1, <2>2, EmptyBodyFits DEF FitInv
<1>3. CASE SessionLost
  <2>1. FormsFit'
    BY <1>0, <1>3 DEF SessionLost, Unmount, FormsFit
  <2>2. UNCHANGED cluster /\ Unmount /\ runs' = Orphaned(runs)
    BY <1>3 DEF SessionLost
  <2>3. QED
    BY <1>a, <1>f, <2>1, <2>2, EmptyBodyFits DEF FitInv
<1>4. CASE LogIn
  <2>1. UNCHANGED cluster /\ UNCHANGED prefill /\ runs' \subseteq runs
    BY <1>4 DEF LogIn, executions
  <2>2. CASE open
    <3>1. Mount(prefill)
      BY <1>4, <2>2 DEF LogIn
    <3>2. Mount(form') /\ FormsFit'
      BY <1>0, <2>1, <3>1 DEF Mount, FormsFit
    <3>3. QED
      BY <1>a, <1>f, <2>1, <3>2, EmptyBodyFits DEF FitInv
  <2>3. CASE ~open
    <3>1. UNCHANGED <<form, previews, lookups, shown>>
      BY <1>4, <2>3 DEF LogIn, body, previewVars, lookupVars
    <3>2. QED
      BY <1>a, <1>b, <1>c, <1>d, <1>e, <1>f, <2>1, <3>1 DEF FitInv
  <2>4. QED
    BY <2>2, <2>3
<1>5. CASE Edit
  <2>1. form' \in FittingForms
    BY <1>5, EditFits
  <2>2. UNCHANGED <<cluster, prefill, previews, lookups, shown>> /\ runs' \subseteq runs
    BY <1>5 DEF Edit, shell, executions
  <2>3. FormsFit'
    BY <1>0, <2>1, <2>2 DEF FormsFit
  <2>4. QED
    BY <1>a, <1>c, <1>d, <1>e, <1>f, <2>2, <2>3 DEF FitInv
<1>6. CASE ToggleKeepOpen \/ AskConfirm \/ Back
  <2>1. UNCHANGED <<cluster, prefill, form, previews, lookups, shown>> /\ runs' \subseteq runs
    BY <1>6 DEF ToggleKeepOpen, AskConfirm, Back, shell, executions, previewVars, lookupVars
  <2>2. QED
    BY <1>a, <1>b, <1>c, <1>d, <1>e, <1>f, <2>1 DEF FitInv
<1>7. CASE Confirm
  <2>1. UNCHANGED <<cluster, prefill, form, previews, lookups, shown>>
    BY <1>7 DEF Confirm, shell, previewVars, lookupVars
  <2>2. form \in FittingForms /\ BuildRequest(form) # None
    BY <1>0, <1>7 DEF Confirm, FormsFit, MountInv, Mounted
  <2>3. DOMAIN Run(BuildRequest(form)) = RunFields
    BY DEF Run, RunFields
  <2>4. Run(BuildRequest(form)).request = BuildRequest(form)
    BY DEF Run
  <2>5. runs' = runs \cup {Run(BuildRequest(form))}
    BY <1>7 DEF Confirm
  <2>6. RunsAreGood'
    BY <1>0, <2>2, <2>3, <2>4, <2>5, BuildRequestIsGood DEF RunsAreGood
  <2>7. QED
    BY <1>a, <1>b, <1>c, <1>d, <1>e, <2>1, <2>6 DEF FitInv
<1>8. CASE PreviewFires
  <2>1. UNCHANGED <<cluster, prefill, form, lookups, shown>> /\ runs' \subseteq runs
    BY <1>8 DEF PreviewFires, shell, body, lookupVars, executions
  <2>2. form \in FittingForms
    BY <1>0, <1>8 DEF PreviewFires, FormsFit, MountInv, Mounted
  <2> DEFINE q == BuildRequest(form)
             asked == [request |-> q, last |-> TRUE]
  <2>3. \/ previews' = Older(previews)
        \/ q # None /\ previews' = Older(previews) \cup {asked}
    BY <1>8 DEF PreviewFires
  <2>4. DOMAIN asked = PreviewFields /\ asked.request = q
    BY DEF PreviewFields
  <2>5. q # None => GoodRequest(q)
    BY <2>2, BuildRequestIsGood
  <2> HIDE DEF q, asked
  <2>6. \A p \in Older(previews) : DOMAIN p = PreviewFields /\ GoodRequest(p.request)
    BY <1>0, OlderKeeps DEF PreviewsAreGood, PreviewFields
  <2>7. PreviewsAreGood'
    BY <2>3, <2>4, <2>5, <2>6 DEF PreviewsAreGood
  <2>8. QED
    BY <1>a, <1>b, <1>c, <1>d, <1>f, <2>1, <2>7 DEF FitInv
<1>9. CASE PreviewAnswers
  <2>1. UNCHANGED <<cluster, prefill, form, lookups, shown>> /\ runs' \subseteq runs
    BY <1>9 DEF PreviewAnswers, shell, body, lookupVars, executions
  <2>2. PreviewsAreGood'
    BY <1>0, <1>9 DEF PreviewAnswers, PreviewsAreGood
  <2>3. QED
    BY <1>a, <1>b, <1>c, <1>d, <1>f, <2>1, <2>2 DEF FitInv
<1>10. CASE LookupFires
  <2>1. UNCHANGED <<cluster, prefill, form, previews>> /\ runs' \subseteq runs
    BY <1>10 DEF LookupFires, shell, body, previewVars, executions
  <2>2. \A l \in Older(lookups) : DOMAIN l = LookupFields /\ l.rows \subseteq FittingRows
    BY <1>0, OlderKeeps DEF LookupsFit, LookupFields
  <2>3. LookupsFit'
    <3>1. PICK l : /\ l = [name |-> form.name, type |-> form.type, read |-> FALSE,
                           rows |-> {}, last |-> TRUE]
                   /\ lookups' \subseteq Older(lookups) \cup {l}
      BY <1>10 DEF LookupFires
    <3>2. DOMAIN l = LookupFields /\ l.rows \subseteq FittingRows
      BY <3>1 DEF LookupFields
    <3>3. QED
      BY <2>2, <3>1, <3>2 DEF LookupsFit
  <2>4. ShownFits'
    <3>1. shown' = [NothingShown EXCEPT !.last = TRUE] \/ shown' = [shown EXCEPT !.last = FALSE]
      BY <1>10 DEF LookupFires
    <3>2. DOMAIN NothingShown = ShownFields /\ NothingShown.rows = {}
      BY DEF NothingShown, ShownFields
    <3>3. CASE shown' = [NothingShown EXCEPT !.last = TRUE]
      BY <3>2, <3>3 DEF ShownFits, ShownFields
    <3>4. CASE shown' = [shown EXCEPT !.last = FALSE]
      BY <1>0, <3>4 DEF ShownFits, ShownFields
    <3>5. QED
      BY <3>1, <3>3, <3>4
  <2>5. QED
    BY <1>a, <1>b, <1>e, <1>f, <2>1, <2>3, <2>4 DEF FitInv
<1>11. CASE LookupReads
  <2>1. UNCHANGED <<cluster, prefill, form, previews, shown>> /\ runs' \subseteq runs
    BY <1>11 DEF LookupReads, shell, body, previewVars, executions
  <2>2. PICK l \in lookups :
          lookups' = (lookups \ {l}) \cup
                     {[l EXCEPT !.read = TRUE, !.rows = RowsOf(l.name, l.type)]}
    BY <1>11 DEF LookupReads
  <2> DEFINE m == [l EXCEPT !.read = TRUE, !.rows = RowsOf(l.name, l.type)]
  <2>3. DOMAIN m = LookupFields /\ m.rows = RowsOf(l.name, l.type)
    BY <1>0 DEF LookupsFit, LookupFields
  <2>4. m.rows \subseteq FittingRows
    BY <1>0, <2>3, RowsOfFit
  <2>5. LookupsFit'
    BY <1>0, <2>2, <2>3, <2>4 DEF LookupsFit
  <2>6. QED
    BY <1>a, <1>b, <1>d, <1>e, <1>f, <2>1, <2>5 DEF FitInv
<1>12. CASE LookupAnswers
  <2>1. UNCHANGED <<cluster, prefill, form, previews>> /\ runs' \subseteq runs
    BY <1>12 DEF LookupAnswers, shell, body, previewVars, executions
  <2>2. LookupsFit'
    BY <1>0, <1>12 DEF LookupAnswers, LookupsFit
  <2>3. ShownFits'
    BY <1>0, <1>12 DEF LookupAnswers, LookupsFit, ShownFits, ShownFields
  <2>4. QED
    BY <1>a, <1>b, <1>e, <1>f, <2>1, <2>2, <2>3 DEF FitInv
<1>13. CASE RunLands
  <2>1. UNCHANGED <<prefill, form, previews, lookups, shown>>
    BY <1>13 DEF RunLands, shell, body, previewVars, lookupVars
  <2>2. ClusterFits' /\ RunsAreGood'
    BY <1>13, LandingFits
  <2>3. QED
    BY <1>b, <1>c, <1>d, <1>e, <2>1, <2>2 DEF FitInv
<1>14. CASE RunEnds
  <2>1. PICK r \in runs, ok \in BOOLEAN :
          IF ok /\ ~r.keep
          THEN Close /\ runs' = Orphaned(runs \ {r})
          ELSE /\ runs' = runs \ {r}
               /\ IF r.mine THEN ResetAndRefetch ELSE UNCHANGED <<body, previewVars, lookupVars>>
               /\ UNCHANGED <<open, prefill>>
    BY <1>14 DEF RunEnds
  <2>2. UNCHANGED cluster
    BY <1>14 DEF RunEnds
  <2>3. CASE ok /\ ~r.keep
    <3>1. FormsFit' /\ Unmount
      BY <2>1, <2>3, EmptyFormFits DEF Close, Unmount, FormsFit
    <3>2. RunsAreGood'
      BY <1>0, <2>1, <2>3, OrphanedKeep DEF RunsAreGood
    <3>3. QED
      BY <1>a, <2>2, <3>1, <3>2, EmptyBodyFits DEF FitInv
  <2>4. CASE ~(ok /\ ~r.keep) /\ r.mine
    <3>1. UNCHANGED <<prefill, previews, lookups, shown>> /\ runs' \subseteq runs
      BY <2>1, <2>4 DEF ResetAndRefetch
    <3>2. form' = [form EXCEPT !.privileges = {}, !.grantOption = FALSE]
      BY <2>1, <2>4 DEF ResetAndRefetch
    <3>3. form \in FittingForms
      BY <1>0, <2>4 DEF MountInv, Mounted, FormsFit
    <3>4. FALSE \in BOOLEAN
      OBVIOUS
    <3>5. form' \in FittingForms
      BY <3>2, <3>3, <3>4, EditedFits
    <3>6. FormsFit'
      BY <1>0, <3>1, <3>5 DEF FormsFit
    <3>7. QED
      BY <1>a, <1>c, <1>d, <1>e, <1>f, <2>2, <3>1, <3>6 DEF FitInv
  <2>5. CASE ~(ok /\ ~r.keep) /\ ~r.mine
    <3>1. UNCHANGED <<prefill, form, previews, lookups, shown>> /\ runs' \subseteq runs
      BY <2>1, <2>5 DEF body, previewVars, lookupVars
    <3>2. QED
      BY <1>a, <1>b, <1>c, <1>d, <1>e, <1>f, <2>2, <3>1 DEF FitInv
  <2>6. QED
    BY <2>3, <2>4, <2>5
<1>15. CASE UNCHANGED vars
  BY <1>a, <1>b, <1>c, <1>d, <1>e, <1>f, <1>15
     DEF FitInv, vars, shell, body, previewVars, lookupVars, executions
<1>16. QED
  BY <1>1, <1>2, <1>3, <1>4, <1>5, <1>6, <1>7, <1>8, <1>9, <1>10, <1>11, <1>12, <1>13,
     <1>14, <1>15 DEF Next, User, Machine

-----------------------------------------------------------------------------
(* Who an execution belongs to.                                            *)

LEMMA FormsAreSomething == None \notin FittingForms
  BY NoneIsNoValue DEF FittingForms

LEMMA OrphansAreNobodys ==
  ASSUME NEW S, \A r \in S : DOMAIN r = RunFields
  PROVE  \A r \in Orphaned(S) : DOMAIN r = RunFields /\ ~r.mine
<1> SUFFICES ASSUME NEW r \in Orphaned(S) PROVE DOMAIN r = RunFields /\ ~r.mine
  OBVIOUS
<1>1. PICK o \in S : r = [o EXCEPT !.mine = FALSE]
  BY DEF Orphaned
<1>2. QED
  BY <1>1 DEF RunFields

LEMMA MountInit == Init => MountInv
  BY DEF Init, MountInv, Mounted

LEMMA MountNext == FitInv /\ MountInv /\ [Next]_vars => MountInv'
<1> SUFFICES ASSUME FitInv, MountInv, [Next]_vars PROVE MountInv'
  OBVIOUS
<1> USE DEF Mounted
<1>0. FormsFit
  BY DEF FitInv
<1>1. ASSUME NEW f \in Prefills, OpenWizard(f) PROVE MountInv'
  <2>1. f # None
    BY PrefillsFit, FormsAreSomething DEF FitInv
  <2>2. ~executing
    BY <1>1 DEF OpenWizard, MountInv
  <2>3. QED
    BY <1>1, <2>1, <2>2 DEF OpenWizard, Mount, MountInv, executions
<1>2. CASE CloseByEscape
  BY <1>2 DEF CloseByEscape, Close, Unmount, MountInv, executions
<1>3. CASE Cancel \/ SessionLost
  <2>1. runs' = Orphaned(runs) /\ Unmount
    BY <1>3 DEF Cancel, SessionLost, Close
  <2>2. \A r \in runs' : DOMAIN r = RunFields /\ ~r.mine
    BY <2>1, OrphansAreNobodys DEF MountInv
  <2>3. QED
    BY <2>1, <2>2 DEF Unmount, MountInv
<1>4. CASE LogIn
  <2>1. CASE open
    <3>1. Mount(prefill) /\ UNCHANGED runs /\ open' /\ loggedIn' /\ ~loggedIn
      BY <1>4, <2>1 DEF LogIn, executions
    <3>2. ~executing /\ prefill # None
      BY <1>0, <3>1, FormsAreSomething DEF MountInv, FormsFit
    <3>3. QED
      BY <3>1, <3>2 DEF Mount, MountInv
  <2>2. CASE ~open
    BY <1>4, <2>2 DEF LogIn, MountInv, body, previewVars, lookupVars, executions
  <2>3. QED
    BY <2>1, <2>2
<1>5. CASE Edit
  <2>1. form' # None
    BY <1>5, EditFits, FormsAreSomething
  <2>2. UNCHANGED <<runs, executing, confirming, open, loggedIn>> /\ form # None
    BY <1>5 DEF Edit, executions, shell
  <2>3. QED
    BY <2>1, <2>2 DEF MountInv
<1>6. CASE ToggleKeepOpen
  BY <1>6 DEF ToggleKeepOpen, MountInv, shell, previewVars, lookupVars, executions
<1>7. CASE AskConfirm \/ Back
  BY <1>7 DEF AskConfirm, Back, MountInv, shell, previewVars, lookupVars, executions
<1>8. CASE Confirm
  <2>1. /\ UNCHANGED <<confirming, form, previewDue, grantsDue, open, loggedIn>>
        /\ confirming /\ executing'
    BY <1>8 DEF Confirm, shell, previewVars, lookupVars
  <2>2. runs' = runs \cup {Run(BuildRequest(form))} /\ \A r \in runs : ~r.mine
    BY <1>8 DEF Confirm, MountInv
  <2>3. DOMAIN Run(BuildRequest(form)) = RunFields /\ Run(BuildRequest(form)).mine
    BY DEF Run, RunFields
  <2>4. QED
    BY <2>1, <2>2, <2>3 DEF MountInv
<1>9. CASE PreviewFires \/ PreviewAnswers
  <2>1. /\ UNCHANGED <<runs, executing, confirming, form, grantsDue, open, loggedIn>>
        /\ previewDue' => previewDue
    BY <1>9 DEF PreviewFires, PreviewAnswers, shell, body, lookupVars, executions
  <2>2. QED
    BY <2>1 DEF MountInv
<1>10. CASE LookupFires \/ LookupReads \/ LookupAnswers
  <2>1. UNCHANGED <<runs, executing, confirming, form, previewDue, open, loggedIn>>
    BY <1>10 DEF LookupFires, LookupReads, LookupAnswers, shell, body, previewVars, executions
  <2>2. CASE LookupFires
    BY <2>1, <2>2 DEF LookupFires, MountInv
  <2>3. CASE LookupReads \/ LookupAnswers
    <3>1. UNCHANGED grantsDue
      BY <2>3 DEF LookupReads, LookupAnswers
    <3>2. QED
      BY <2>1, <3>1 DEF MountInv
  <2>4. QED
    BY <1>10, <2>2, <2>3
<1>11. CASE RunLands
  <2>1. UNCHANGED <<executing, confirming, form, previewDue, grantsDue, open, loggedIn>>
    BY <1>11 DEF RunLands, shell, body, previewVars, lookupVars
  <2>2. PICK r \in runs : runs' = (runs \ {r}) \cup {[r EXCEPT !.landed = TRUE]}
    BY <1>11 DEF RunLands
  <2>3. DOMAIN [r EXCEPT !.landed = TRUE] = RunFields /\ [r EXCEPT !.landed = TRUE].mine = r.mine
    BY DEF MountInv, RunFields
  <2>4. QED
    BY <2>1, <2>2, <2>3 DEF MountInv
<1>12. CASE RunEnds
  <2>1. PICK r \in runs, ok \in BOOLEAN :
          IF ok /\ ~r.keep
          THEN Close /\ runs' = Orphaned(runs \ {r})
          ELSE /\ runs' = runs \ {r}
               /\ IF r.mine THEN ResetAndRefetch ELSE UNCHANGED <<body, previewVars, lookupVars>>
               /\ UNCHANGED <<open, prefill>>
    BY <1>12 DEF RunEnds
  <2>l. UNCHANGED loggedIn
    BY <1>12 DEF RunEnds
  <2>2. CASE ok /\ ~r.keep
    <3>1. Unmount /\ \A s \in runs' : DOMAIN s = RunFields /\ ~s.mine
      BY <2>1, <2>2, OrphansAreNobodys DEF MountInv, Close
    <3>2. QED
      BY <3>1 DEF Unmount, MountInv
  <2>3. CASE ~(ok /\ ~r.keep) /\ r.mine
    <3>1. ResetAndRefetch /\ runs' = runs \ {r} /\ UNCHANGED <<open, loggedIn>> /\ Mounted
      BY <2>1, <2>3, <2>l DEF MountInv
    <3>2. form \in FittingForms
      BY <1>0, <2>3 DEF MountInv, FormsFit
    <3>3. FALSE \in BOOLEAN
      OBVIOUS
    <3>4. form' # None
      BY <3>1, <3>2, <3>3, EditedFits, FormsAreSomething DEF ResetAndRefetch
    <3>5. \A s \in runs' : ~s.mine
      BY <2>3, <3>1 DEF MountInv
    <3>6. QED
      BY <3>1, <3>4, <3>5 DEF MountInv, ResetAndRefetch
  <2>4. CASE ~(ok /\ ~r.keep) /\ ~r.mine
    <3>1. /\ runs' = runs \ {r}
          /\ UNCHANGED <<executing, confirming, form, previewDue, grantsDue, open, loggedIn>>
      BY <2>1, <2>4, <2>l DEF body, previewVars, lookupVars
    <3>2. QED
      BY <2>4, <3>1 DEF MountInv
  <2>5. QED
    BY <2>2, <2>3, <2>4
<1>13. CASE UNCHANGED vars
  BY <1>13 DEF MountInv, vars, shell, body, previewVars, lookupVars, executions
<1>14. QED
  BY <1>1, <1>2, <1>3, <1>4, <1>5, <1>6, <1>7, <1>8, <1>9, <1>10, <1>11, <1>12, <1>13
     DEF Next, User, Machine

LEMMA DialogInvariant == Spec => [](FitInv /\ MountInv)
<1>1. Init => FitInv /\ MountInv
  BY FitInit, MountInit
<1>2. FitInv /\ MountInv /\ [Next]_vars => (FitInv /\ MountInv)'
  BY FitNext, MountNext
<1>3. QED
  BY <1>1, <1>2, PTL DEF Spec

(* Whatever is edited, prefilled, loaded or reset, in whatever order: every *)
(* request the dialog previews or executes (useGrantForm.ts:26-52) is one   *)
(* build_statements accepts.                                               *)
THEOREM DialogRequestsAreAcceptable == Spec => []RequestsAcceptable
<1>1. FitInv => RequestsAcceptable
  BY DEF FitInv, PreviewsAreGood, RunsAreGood, GoodRequest, RequestsAcceptable
<1>2. QED
  BY <1>1, DialogInvariant, PTL

(* The dialog that is mounted never has two executions, and its footer      *)
(* stays on the confirmation while it has one (ModalFooter.tsx:32-80).      *)
THEOREM DialogRunsOneAtATime == Spec => []OneRunPerBody
<1>1. MountInv => OneRunPerBody
  BY DEF MountInv, OneRunPerBody
<1>2. QED
  BY <1>1, DialogInvariant, PTL

-----------------------------------------------------------------------------
(* The types.                                                              *)

FlagsTyped ==
  /\ loggedIn \in BOOLEAN /\ open \in BOOLEAN
  /\ keepOpen \in BOOLEAN /\ confirming \in BOOLEAN /\ executing \in BOOLEAN
  /\ previewDue \in BOOLEAN /\ grantsDue \in BOOLEAN
  /\ stray \in BOOLEAN /\ tick \in Nat /\ acts \in Nat

PreviewType == [request : Request, last : BOOLEAN]
LookupType == [name : Names, type : {"USER", "ROLE"}, read : BOOLEAN,
               rows : SUBSET Rows, last : BOOLEAN]
RunType == [request : Request, previewed : Request \cup {None}, keep : BOOLEAN,
            mine : BOOLEAN, landed : BOOLEAN, no : Nat]

PreviewsTyped ==
  /\ previews \subseteq PreviewType
  /\ preview \in [request : Request \cup {None}, last : BOOLEAN]
LookupsTyped ==
  /\ lookups \subseteq LookupType
  /\ shown \in [rows : SUBSET Rows, last : BOOLEAN, failed : BOOLEAN]
RunsTyped == runs \subseteq RunType

LEMMA OrIsBoolean == ASSUME NEW x, NEW y PROVE (x \/ y) \in BOOLEAN
  BY Zenon

LEMMA AndIsBoolean == ASSUME NEW x, NEW y, NEW z PROVE (x /\ y /\ z) \in BOOLEAN
  BY Zenon

(* What an empty, an unanswered or a failed preview or lookup looks like.  *)
LEMMA EmptyIsTyped ==
  /\ NoPreview \in [request : Request \cup {None}, last : BOOLEAN]
  /\ \A b \in BOOLEAN : [request |-> None, last |-> b] \in [request : Request \cup {None}, last : BOOLEAN]
  /\ NothingShown \in [rows : SUBSET Rows, last : BOOLEAN, failed : BOOLEAN]
  /\ [NothingShown EXCEPT !.last = TRUE] \in [rows : SUBSET Rows, last : BOOLEAN, failed : BOOLEAN]
<1>1. TRUE \in BOOLEAN /\ FALSE \in BOOLEAN
  OBVIOUS
<1>2. NoPreview \in [request : Request \cup {None}, last : BOOLEAN]
  BY <1>1 DEF NoPreview
<1>3. \A b \in BOOLEAN : [request |-> None, last |-> b] \in [request : Request \cup {None}, last : BOOLEAN]
  OBVIOUS
<1>4. NothingShown \in [rows : SUBSET Rows, last : BOOLEAN, failed : BOOLEAN]
  BY <1>1 DEF NothingShown
<1>5. [NothingShown EXCEPT !.last = TRUE] \in [rows : SUBSET Rows, last : BOOLEAN, failed : BOOLEAN]
  BY <1>1, <1>4
<1>6. QED
  BY <1>2, <1>3, <1>4, <1>5

LEMMA TypesInit == Init => FlagsTyped /\ PreviewsTyped /\ LookupsTyped /\ RunsTyped
<1> SUFFICES ASSUME Init PROVE FlagsTyped /\ PreviewsTyped /\ LookupsTyped /\ RunsTyped
  OBVIOUS
<1>1. FlagsTyped
  BY DEF Init, FlagsTyped
<1>2. PreviewsTyped
  BY EmptyIsTyped DEF Init, PreviewsTyped
<1>3. LookupsTyped /\ RunsTyped
  BY EmptyIsTyped DEF Init, LookupsTyped, RunsTyped
<1>4. QED
  BY <1>1, <1>2, <1>3

LEMMA RequestsAreTyped ==
  ASSUME NEW f \in FittingForms, BuildRequest(f) # None PROVE BuildRequest(f) \in Request
<1> DEFINE option == f.kind = "PRIVILEGE" /\ f.action = "GRANT" /\ f.grantOption
           object == IF f.kind = "ROLE" THEN None ELSE FormObject(f)
           privileges == IF f.kind = "ROLE" THEN {} ELSE f.privileges
           role == IF f.kind = "ROLE" THEN f.role ELSE Blank
<1>1. Complete(f)
  BY DEF BuildRequest
<1>2. BuildRequest(f) = [action |-> f.action, kind |-> f.kind, name |-> f.name,
                         type |-> f.type, object |-> object, privileges |-> privileges,
                         grantOption |-> option, role |-> role]
  BY <1>1 DEF BuildRequest
<1>3. option \in BOOLEAN
  BY AndIsBoolean
<1>4. /\ f.action \in {"GRANT", "REVOKE"} /\ f.kind \in {"PRIVILEGE", "ROLE"}
      /\ f.name \in Names /\ f.type \in {"USER", "ROLE"}
      /\ privileges \in SUBSET Privileges /\ role \in Roles \cup {Blank}
  BY <1>1 DEF FittingForms, Form, Complete
<1>5. object \in Objects \cup {None}
  BY DialogConstants DEF FittingForms, Form, FormObject, Objects, ObjectTypes
<1> HIDE DEF option, object, privileges, role
<1>6. QED
  BY <1>2, <1>3, <1>4, <1>5 DEF Request

LEMMA FlagsNext == FlagsTyped /\ [Next]_vars => FlagsTyped'
<1> SUFFICES ASSUME FlagsTyped, [Next]_vars PROVE FlagsTyped'
  OBVIOUS
<1> USE DEF FlagsTyped, cluster, shell, body, previewVars, lookupVars, executions
<1>1. ASSUME NEW f \in Prefills, OpenWizard(f) PROVE FlagsTyped'
  <2>1. acts' \in Nat /\ tick' \in Nat
    BY <1>1 DEF OpenWizard
  <2>2. open' = TRUE /\ UNCHANGED <<loggedIn, stray>>
    BY <1>1 DEF OpenWizard
  <2>3. /\ keepOpen' = FALSE /\ confirming' = FALSE /\ executing' = FALSE
        /\ previewDue' = TRUE /\ grantsDue' = TRUE
    BY <1>1, Zenon DEF OpenWizard, Mount
  <2>4. QED
    BY <2>1, <2>2, <2>3
<1>2. CASE CloseByEscape \/ Cancel \/ SessionLost
  BY <1>2 DEF CloseByEscape, Cancel, SessionLost, Close, Unmount
<1>3. CASE LogIn
  BY <1>3 DEF LogIn, Mount
<1>4. CASE Edit
  <2>1. PICK f : Change(f)
    BY <1>4, Zenon
       DEF Edit, SwitchAction, SwitchKind, SwitchType, TypeName, PickGrantee,
           JumpToSourceRole, PickRole, PickObjectType, TypePlace, TogglePrivilege,
           ApplyPreset, SetGrantOption, LoadGrantIntoForm
  <2>2. previewDue' \in BOOLEAN /\ acts' \in Nat
    BY <2>1 DEF Change
  <2>3. grantsDue' = ((grantsDue \/ f.name # form.name) \/ f.type # form.type)
    BY <2>1, Zenon DEF Change
  <2>4. grantsDue' \in BOOLEAN
    BY <2>3, OrIsBoolean
  <2>5. QED
    BY <1>4, <2>2, <2>4 DEF Edit
<1>5. CASE ToggleKeepOpen
  <2>1. keepOpen' \in BOOLEAN
    BY <1>5, NegationIsBoolean DEF ToggleKeepOpen
  <2>2. QED
    BY <1>5, <2>1 DEF ToggleKeepOpen
<1>6. CASE AskConfirm \/ Back
  BY <1>6 DEF AskConfirm, Back
<1>13. CASE Confirm
  <2>1. acts' \in Nat
    BY <1>13 DEF Confirm
  <2>2. executing' = TRUE
    BY <1>13, Zenon DEF Confirm
  <2>3. UNCHANGED <<loggedIn, open, keepOpen, confirming, previewDue, grantsDue, stray, tick>>
    BY <1>13, Zenon DEF Confirm
  <2>4. QED
    BY <2>1, <2>2, <2>3
<1>7. CASE PreviewFires \/ PreviewAnswers
  BY <1>7 DEF PreviewFires, PreviewAnswers
<1>8. CASE LookupFires \/ LookupReads \/ LookupAnswers
  <2>1. grantsDue' \in BOOLEAN
    BY <1>8 DEF LookupFires, LookupReads, LookupAnswers
  <2>2. UNCHANGED <<loggedIn, open, keepOpen, confirming, executing, previewDue, stray, tick, acts>>
    BY <1>8, Zenon DEF LookupFires, LookupReads, LookupAnswers
  <2>3. QED
    BY <2>1, <2>2
<1>9. CASE RunLands
  <2>1. PICK r \in runs : stray' = (stray \/ ~r.mine)
    BY <1>9, Zenon DEF RunLands
  <2>2. stray' \in BOOLEAN
    BY <2>1, OrIsBoolean
  <2>3. QED
    BY <1>9, <2>2 DEF RunLands
<1>10. CASE RunEnds
  <2>1. tick' \in Nat /\ UNCHANGED <<loggedIn, stray, acts>>
    BY <1>10 DEF RunEnds
  <2>2. CASE Close
    BY <2>1, <2>2 DEF Close, Unmount
  <2>3. CASE ResetAndRefetch /\ UNCHANGED open
    <3>1. previewDue' = (previewDue \/ form' # form)
      BY <2>3 DEF ResetAndRefetch
    <3>2. previewDue' \in BOOLEAN
      BY <3>1, OrIsBoolean
    <3>3. QED
      BY <2>1, <2>3, <3>2 DEF ResetAndRefetch
  <2>4. CASE UNCHANGED <<body, previewVars, lookupVars, open>>
    BY <2>1, <2>4
  <2>5. QED
    BY <1>10, <2>2, <2>3, <2>4 DEF RunEnds
<1>11. CASE UNCHANGED vars
  BY <1>11 DEF vars
<1>12. QED
  BY <1>1, <1>2, <1>3, <1>4, <1>5, <1>6, <1>7, <1>8, <1>9, <1>10, <1>11, <1>13
     DEF Next, User, Machine

(* An older request stays the request it was.                              *)
LEMMA OlderIsTyped ==
  /\ \A S \in SUBSET PreviewType : Older(S) \subseteq PreviewType
  /\ \A S \in SUBSET LookupType : Older(S) \subseteq LookupType
<1>1. FALSE \in BOOLEAN
  OBVIOUS
<1>2. ASSUME NEW S \in SUBSET PreviewType PROVE Older(S) \subseteq PreviewType
  BY <1>1 DEF Older, PreviewType
<1>3. ASSUME NEW S \in SUBSET LookupType PROVE Older(S) \subseteq LookupType
  BY <1>1 DEF Older, LookupType
<1>4. QED
  BY <1>2, <1>3

(* The only steps that touch the previews or the lookups while the body    *)
(* stays are those of their own hooks.                                     *)
LEMMA BodyKeepsRequests ==
  ASSUME [Next]_vars
  PROVE  \/ Unmount \/ \E f : Mount(f)
         \/ PreviewFires \/ PreviewAnswers
         \/ LookupFires \/ LookupReads \/ LookupAnswers
         \/ UNCHANGED <<previews, preview, lookups, shown>>
<1> USE DEF previewVars, lookupVars
<1>1. ASSUME NEW f \in Prefills, OpenWizard(f) PROVE \E g : Mount(g)
  BY <1>1 DEF OpenWizard
<1>2. CloseByEscape \/ Cancel \/ SessionLost => Unmount
  BY DEF CloseByEscape, Cancel, SessionLost, Close
<1>3. LogIn => (\E f : Mount(f)) \/ UNCHANGED <<previews, preview, lookups, shown>>
  BY DEF LogIn
<1>4. Edit \/ ToggleKeepOpen \/ AskConfirm \/ Back \/ Confirm \/ RunLands =>
        UNCHANGED <<previews, preview, lookups, shown>>
  BY DEF Edit, ToggleKeepOpen, AskConfirm, Back, Confirm, RunLands
<1>5. RunEnds => Unmount \/ UNCHANGED <<previews, preview, lookups, shown>>
  BY DEF RunEnds, Close, ResetAndRefetch
<1>6. UNCHANGED vars => UNCHANGED <<previews, preview, lookups, shown>>
  BY DEF vars
<1>7. QED
  BY <1>1, <1>2, <1>3, <1>4, <1>5, <1>6, Zenon DEF Next, User, Machine

LEMMA PreviewsNext ==
  FitInv /\ MountInv /\ PreviewsTyped /\ [Next]_vars => PreviewsTyped'
<1> SUFFICES ASSUME FitInv, MountInv, PreviewsTyped, [Next]_vars PROVE PreviewsTyped'
  OBVIOUS
<1> USE DEF PreviewsTyped, PreviewType
<1>1. CASE PreviewFires
  <2> DEFINE q == BuildRequest(form)
  <2>1. form \in FittingForms
    BY <1>1 DEF PreviewFires, MountInv, FitInv, FormsFit, Mounted
  <2>2. Older(previews) \subseteq PreviewType
    BY OlderIsTyped
  <2>3. CASE q = None
    <3>1. previews' = Older(previews) /\ preview' = [request |-> None, last |-> TRUE]
      BY <1>1, <2>3 DEF PreviewFires
    <3>2. TRUE \in BOOLEAN
      OBVIOUS
    <3>3. preview' \in [request : Request \cup {None}, last : BOOLEAN]
      BY <3>1, <3>2, EmptyIsTyped
    <3>4. QED
      BY <2>2, <3>1, <3>3
  <2>4. CASE q # None
    <3>1. q \in Request
      BY <2>1, <2>4, RequestsAreTyped
    <3>2. /\ previews' = Older(previews) \cup {[request |-> q, last |-> TRUE]}
          /\ preview' = [preview EXCEPT !.last = FALSE]
      BY <1>1, <2>4 DEF PreviewFires
    <3> HIDE DEF q
    <3>3. TRUE \in BOOLEAN /\ FALSE \in BOOLEAN
      OBVIOUS
    <3>4. [request |-> q, last |-> TRUE] \in PreviewType
      BY <3>1, <3>3
    <3>5. preview' \in [request : Request \cup {None}, last : BOOLEAN]
      BY <3>2, <3>3
    <3>6. QED
      BY <2>2, <3>2, <3>4, <3>5
  <2>5. QED
    BY <2>3, <2>4
<1>2. CASE PreviewAnswers
  <2>1. PICK q \in previews :
          /\ previews' = previews \ {q}
          /\ preview' \in {q, [request |-> None, last |-> q.last]}
    BY <1>2 DEF PreviewAnswers
  <2>2. q \in PreviewType /\ q.last \in BOOLEAN
    OBVIOUS
  <2>3. [request |-> None, last |-> q.last] \in [request : Request \cup {None}, last : BOOLEAN]
    BY <2>2, EmptyIsTyped
  <2>4. q \in [request : Request \cup {None}, last : BOOLEAN]
    BY <2>2
  <2>5. QED
    BY <2>1, <2>3, <2>4
<1>3. CASE Unmount \/ \E f : Mount(f)
  <2>1. previews' = {} /\ preview' = NoPreview
    BY <1>3 DEF Unmount, Mount
  <2>2. QED
    BY <2>1, EmptyIsTyped
<1>4. CASE UNCHANGED <<previews, preview>>
  BY <1>4
<1>5. LookupFires \/ LookupReads \/ LookupAnswers => UNCHANGED <<previews, preview>>
  BY DEF LookupFires, LookupReads, LookupAnswers, previewVars
<1>6. QED
  BY <1>1, <1>2, <1>3, <1>4, <1>5, BodyKeepsRequests

LEMMA LookupsNext ==
  FitInv /\ MountInv /\ LookupsTyped /\ [Next]_vars => LookupsTyped'
<1> SUFFICES ASSUME FitInv, MountInv, LookupsTyped, [Next]_vars PROVE LookupsTyped'
  OBVIOUS
<1> USE DEF LookupsTyped
<1>1. CASE LookupFires
  <2>1. form \in FittingForms
    BY <1>1 DEF LookupFires, MountInv, FitInv, FormsFit, Mounted
  <2>2. Older(lookups) \subseteq LookupType
    BY OlderIsTyped
  <2>3. CASE form.name = Blank
    BY <1>1, <2>2, <2>3, EmptyIsTyped DEF LookupFires
  <2>4. CASE form.name # Blank
    <3>1. form.name \in Names /\ form.type \in {"USER", "ROLE"}
      BY <2>1, <2>4 DEF FittingForms, Form
    <3>b. TRUE \in BOOLEAN /\ FALSE \in BOOLEAN
      OBVIOUS
    <3>2. [name |-> form.name, type |-> form.type, read |-> FALSE, rows |-> {}, last |-> TRUE]
            \in LookupType
      BY <3>1, <3>b DEF LookupType
    <3>3. shown' = [shown EXCEPT !.last = FALSE]
      BY <1>1, <2>4 DEF LookupFires
    <3>4. shown' \in [rows : SUBSET Rows, last : BOOLEAN, failed : BOOLEAN]
      BY <3>3, <3>b
    <3>5. QED
      BY <1>1, <2>2, <2>4, <3>2, <3>4 DEF LookupFires
  <2>5. QED
    BY <2>3, <2>4
<1>2. CASE LookupReads
  <2>1. PICK l \in lookups :
          lookups' = (lookups \ {l}) \cup
                       {[l EXCEPT !.read = TRUE, !.rows = RowsOf(l.name, l.type)]}
    BY <1>2 DEF LookupReads
  <2>2. RowsOf(l.name, l.type) \in SUBSET Rows
    BY RowsOfFit DEF FitInv, FittingRows
  <2>3. [l EXCEPT !.read = TRUE, !.rows = RowsOf(l.name, l.type)] \in LookupType
    BY <2>2 DEF LookupType
  <2>4. QED
    BY <1>2, <2>1, <2>3 DEF LookupReads
<1>3. CASE LookupAnswers
  <2>1. PICK l \in lookups :
          /\ lookups' = lookups \ {l}
          /\ shown' \in {[rows |-> l.rows, last |-> l.last, failed |-> FALSE],
                         [rows |-> {}, last |-> l.last, failed |-> TRUE]}
    BY <1>3 DEF LookupAnswers
  <2>2. l.rows \in SUBSET Rows /\ l.last \in BOOLEAN
    BY DEF LookupType
  <2>3. \A rows \in SUBSET Rows : \A b, c \in BOOLEAN :
          [rows |-> rows, last |-> b, failed |-> c]
            \in [rows : SUBSET Rows, last : BOOLEAN, failed : BOOLEAN]
    OBVIOUS
  <2>4. TRUE \in BOOLEAN /\ FALSE \in BOOLEAN /\ {} \in SUBSET Rows
    OBVIOUS
  <2>5. /\ [rows |-> l.rows, last |-> l.last, failed |-> FALSE]
              \in [rows : SUBSET Rows, last : BOOLEAN, failed : BOOLEAN]
        /\ [rows |-> {}, last |-> l.last, failed |-> TRUE]
              \in [rows : SUBSET Rows, last : BOOLEAN, failed : BOOLEAN]
    BY <2>2, <2>3, <2>4
  <2>6. QED
    BY <2>1, <2>5
<1>4. CASE Unmount \/ \E f : Mount(f)
  <2>1. lookups' = {} /\ shown' = NothingShown
    BY <1>4 DEF Unmount, Mount
  <2>2. QED
    BY <2>1, EmptyIsTyped
<1>5. CASE UNCHANGED <<lookups, shown>>
  BY <1>5
<1>6. PreviewFires \/ PreviewAnswers => UNCHANGED <<lookups, shown>>
  BY DEF PreviewFires, PreviewAnswers, lookupVars
<1>7. QED
  BY <1>1, <1>2, <1>3, <1>4, <1>5, <1>6, BodyKeepsRequests

LEMMA OrphanedIsTyped ==
  ASSUME NEW S \in SUBSET RunType PROVE Orphaned(S) \subseteq RunType
<1>1. FALSE \in BOOLEAN
  OBVIOUS
<1>2. QED
  BY <1>1 DEF Orphaned, RunType

LEMMA RunsNext ==
  FitInv /\ MountInv /\ FlagsTyped /\ PreviewsTyped /\ RunsTyped /\ [Next]_vars => RunsTyped'
<1> SUFFICES ASSUME FitInv, MountInv, FlagsTyped, PreviewsTyped, RunsTyped, [Next]_vars
             PROVE  RunsTyped'
  OBVIOUS
<1> USE DEF RunsTyped
<1>1. CASE Confirm
  <2>1. form \in FittingForms
    BY <1>1 DEF Confirm, MountInv, FitInv, FormsFit, Mounted
  <2>2. BuildRequest(form) \in Request
    BY <1>1, <2>1, RequestsAreTyped DEF Confirm
  <2>3. Run(BuildRequest(form)) \in RunType
    BY <2>2 DEF Run, RunType, PreviewsTyped, FlagsTyped
  <2>4. QED
    BY <1>1, <2>3 DEF Confirm
<1>2. CASE RunLands
  <2>1. PICK r \in runs : runs' = (runs \ {r}) \cup {[r EXCEPT !.landed = TRUE]}
    BY <1>2 DEF RunLands
  <2>2. [r EXCEPT !.landed = TRUE] \in RunType
    BY DEF RunType
  <2>3. QED
    BY <2>1, <2>2
<1>3. CASE RunEnds
  <2>1. PICK r \in runs : runs' \in {Orphaned(runs \ {r}), runs \ {r}}
    BY <1>3 DEF RunEnds
  <2>2. QED
    BY <2>1, OrphanedIsTyped
<1>4. Cancel \/ SessionLost => runs' = Orphaned(runs)
  BY DEF Cancel, SessionLost
<1>5. ASSUME NEW f \in Prefills, OpenWizard(f) PROVE UNCHANGED runs
  BY <1>5 DEF OpenWizard, executions
<1>6. CloseByEscape \/ LogIn \/ Edit \/ ToggleKeepOpen \/ AskConfirm \/ Back => UNCHANGED runs
  BY DEF CloseByEscape, LogIn, Edit, ToggleKeepOpen, AskConfirm, Back, executions
<1>7. Machine => UNCHANGED runs
  BY DEF Machine, PreviewFires, PreviewAnswers, LookupFires, LookupReads, LookupAnswers,
         executions
<1>8. UNCHANGED vars => UNCHANGED runs
  BY DEF vars, executions
<1>9. QED
  BY <1>1, <1>2, <1>3, <1>4, <1>5, <1>6, <1>7, <1>8, OrphanedIsTyped DEF Next, User

(* Every variable of the dialog keeps its type.                             *)
THEOREM DialogTyped == Spec => []TypeOK
<1> DEFINE Types == FlagsTyped /\ PreviewsTyped /\ LookupsTyped /\ RunsTyped
<1>1. Init => Types
  BY TypesInit
<1>2. FitInv /\ MountInv /\ Types /\ [Next]_vars => Types'
  BY FlagsNext, PreviewsNext, LookupsNext, RunsNext
<1>3. FitInv /\ Types => TypeOK
  BY DEF FitInv, ClusterFits, FormsFit, FittingForms, FittingGrants, FlagsTyped, PreviewsTyped,
         LookupsTyped, RunsTyped, PreviewType, LookupType, RunType, TypeOK
<1> HIDE DEF Types
<1>4. QED
  BY <1>1, <1>2, <1>3, DialogInvariant, PTL DEF Spec

-----------------------------------------------------------------------------
(* The preview: what was asked last is asked of the form, until the form   *)
(* changes again and the debounce starts over.                             *)

LastIsOfForm == \A p \in previews : p.last => p.request = BuildRequest(form)
ShownIsOfForm == preview.last => preview.request \in {BuildRequest(form), None}

PreviewInv ==
  /\ DOMAIN preview = PreviewFields
  /\ Mounted /\ ~previewDue => LastIsOfForm /\ ShownIsOfForm

LEMMA PreviewInit == Init => PreviewInv
  BY DEF Init, NoPreview, PreviewFields, PreviewInv, Mounted

LEMMA PreviewNext == FitInv /\ MountInv /\ PreviewInv /\ [Next]_vars => PreviewInv'
<1> SUFFICES ASSUME FitInv, MountInv, PreviewInv, [Next]_vars PROVE PreviewInv'
  OBVIOUS
<1>a. UNCHANGED <<form, previewDue, previews, preview>> => PreviewInv'
  BY DEF PreviewInv, LastIsOfForm, ShownIsOfForm, Mounted
<1>b. UNCHANGED preview /\ previewDue' => PreviewInv'
  BY DEF PreviewInv
<1>c. Mount(form') \/ Unmount => PreviewInv'
  BY DEF Mount, Unmount, NoPreview, PreviewFields, PreviewInv, Mounted
<1>1. ASSUME NEW f \in Prefills, OpenWizard(f) PROVE PreviewInv'
  <2>1. Mount(form')
    BY <1>1 DEF OpenWizard, Mount
  <2>2. QED
    BY <1>c, <2>1
<1>2. CASE CloseByEscape \/ Cancel \/ SessionLost
  BY <1>c, <1>2 DEF CloseByEscape, Cancel, SessionLost, Close
<1>3. CASE LogIn
  <2>1. CASE open
    BY <1>c, <1>3, <2>1 DEF LogIn, Mount
  <2>2. CASE ~open
    BY <1>a, <1>3, <2>2 DEF LogIn, body, previewVars
  <2>3. QED
    BY <2>1, <2>2
<1>4. CASE Edit
  <2>1. previewDue'
    BY <1>4 DEF Edit, SwitchAction, SwitchKind, SwitchType, TypeName, PickGrantee,
                JumpToSourceRole, PickRole, PickObjectType, TypePlace, TogglePrivilege,
                ApplyPreset, SetGrantOption, LoadGrantIntoForm, Change
  <2>2. UNCHANGED preview
    BY <1>4 DEF Edit
  <2>3. QED
    BY <1>b, <2>1, <2>2
<1>5. CASE ToggleKeepOpen \/ AskConfirm \/ Back \/ Confirm
  BY <1>a, <1>5 DEF ToggleKeepOpen, AskConfirm, Back, Confirm, previewVars
<1>6. CASE PreviewFires
  <2> DEFINE q == BuildRequest(form)
             asked == [request |-> q, last |-> TRUE]
             empty == [request |-> None, last |-> TRUE]
  <2>1. UNCHANGED form
    BY <1>6 DEF PreviewFires, body
  <2>2. \A p \in Older(previews) : ~p.last
    <3>1. \A p \in previews : DOMAIN p = PreviewFields
      BY DEF FitInv, PreviewsAreGood
    <3>2. QED
      BY <3>1 DEF Older, PreviewFields
  <2>3. asked.request = q /\ empty.request = None
    OBVIOUS
  <2>4. DOMAIN empty = PreviewFields
    BY DEF PreviewFields
  <2>5. CASE q = None
    <3>1. previews' = Older(previews) /\ preview' = empty
      BY <1>6, <2>5 DEF PreviewFires
    <3>2. QED
      BY <2>1, <2>2, <2>3, <2>4, <3>1 DEF PreviewInv, LastIsOfForm, ShownIsOfForm
  <2>6. CASE q # None
    <3>1. previews' = Older(previews) \cup {asked} /\ preview' = [preview EXCEPT !.last = FALSE]
      BY <1>6, <2>6 DEF PreviewFires
    <3>2. DOMAIN preview' = PreviewFields /\ ~preview'.last
      BY <3>1 DEF PreviewInv, PreviewFields
    <3>3. BuildRequest(form)' = q
      BY <2>1 DEF BuildRequest, Complete, FormObject
    <3> HIDE DEF q, asked, empty
    <3>4. LastIsOfForm'
      BY <2>2, <2>3, <3>1, <3>3 DEF LastIsOfForm
    <3>5. QED
      BY <3>2, <3>4 DEF PreviewInv, ShownIsOfForm
  <2>7. QED
    BY <2>5, <2>6
<1>7. CASE PreviewAnswers
  <2>1. PICK q \in previews :
          /\ previews' = previews \ {q}
          /\ preview' \in {q, [request |-> None, last |-> q.last]}
    BY <1>7 DEF PreviewAnswers
  <2>2. UNCHANGED <<form, previewDue>>
    BY <1>7 DEF PreviewAnswers, body
  <2>3. DOMAIN q = PreviewFields
    BY DEF FitInv, PreviewsAreGood
  <2>4. CASE preview' = q
    BY <2>1, <2>2, <2>3, <2>4 DEF PreviewInv, LastIsOfForm, ShownIsOfForm, Mounted
  <2>5. CASE preview' = [request |-> None, last |-> q.last]
    <3>1. DOMAIN preview' = PreviewFields /\ preview'.request = None
      BY <2>5 DEF PreviewFields
    <3>2. QED
      BY <2>1, <2>2, <3>1 DEF PreviewInv, LastIsOfForm, ShownIsOfForm, Mounted
  <2>6. QED
    BY <2>1, <2>4, <2>5
<1>8. CASE LookupFires \/ LookupReads \/ LookupAnswers \/ RunLands
  BY <1>a, <1>8 DEF LookupFires, LookupReads, LookupAnswers, RunLands, body, previewVars
<1>9. CASE RunEnds
  <2>1. CASE Close
    BY <1>c, <2>1 DEF Close
  <2>2. CASE ResetAndRefetch
    <3>1. UNCHANGED <<previews, preview>> /\ previewDue' = (previewDue \/ form' # form)
      BY <2>2 DEF ResetAndRefetch
    <3>2. CASE form' # form
      BY <1>b, <3>1, <3>2
    <3>3. CASE UNCHANGED form
      BY <3>1, <3>3 DEF PreviewInv, LastIsOfForm, ShownIsOfForm, Mounted
    <3>4. QED
      BY <3>2, <3>3
  <2>3. CASE UNCHANGED <<body, previewVars, lookupVars>>
    BY <1>a, <2>3 DEF body, previewVars
  <2>4. QED
    BY <1>9, <2>1, <2>2, <2>3 DEF RunEnds
<1>10. CASE UNCHANGED vars
  BY <1>a, <1>10 DEF vars, body, previewVars
<1>11. QED
  BY <1>1, <1>2, <1>3, <1>4, <1>5, <1>6, <1>7, <1>8, <1>9, <1>10 DEF Next, User, Machine

(* A preview that answers the last question shows the form, once the        *)
(* debounce of useGrantPreview.ts:12-35 is over.                            *)
THEOREM QuietPreviewsFollowTheForm == Spec => []QuietPreviewIsOfForm
<1>1. Init => PreviewInv
  BY PreviewInit
<1>2. FitInv /\ MountInv /\ PreviewInv /\ [Next]_vars => PreviewInv'
  BY PreviewNext
<1>3. PreviewInv => QuietPreviewIsOfForm
  BY DEF PreviewInv, ShownIsOfForm, QuietPreviewIsOfForm
<1>4. QED
  BY <1>1, <1>2, <1>3, DialogInvariant, PTL DEF Spec

-----------------------------------------------------------------------------
(* The grants shown: whoever is looked up last is the grantee of the form, *)
(* and what was read for it is what the cluster holds, unless an execution *)
(* of this dialog has taken effect and has not ended yet.                  *)

RowsAreHeld(rows) == rows = RowsOf(form.name, form.type)
RunHasLanded == \E r \in runs : r.mine /\ r.landed
LastIsOfGrantee == \A l \in lookups : l.last => l.name = form.name /\ l.type = form.type
LastReadIsHeld == \A l \in lookups : l.last /\ l.read => RowsAreHeld(l.rows)
ShownIsHeld == shown.last /\ ~shown.failed => RowsAreHeld(shown.rows)

GrantsInv ==
  Mounted /\ ~grantsDue /\ ~stray =>
    LastIsOfGrantee /\ (RunHasLanded \/ (LastReadIsHeld /\ ShownIsHeld))

LEMMA GrantsInit == Init => GrantsInv
  BY DEF Init, GrantsInv, Mounted

(* What decides what RowsOf answers.                                       *)
LEMMA RowsOfStable ==
  ASSUME UNCHANGED cluster, form'.name = form.name, form'.type = form.type, NEW rows
  PROVE  RowsAreHeld(rows) => rows = RowsOf(form.name, form.type)'
  BY DEF RowsAreHeld, RowsOf, cluster

(* An edit that leaves the grantee alone leaves the lookup alone.          *)
LEMMA EditFollowsGrantee ==
  ASSUME Edit
  PROVE  /\ grantsDue' = (grantsDue \/ form'.name # form.name \/ form'.type # form.type)
         /\ UNCHANGED <<lookups, shown, runs, stray, cluster>>
<1>1. \E f : Change(f)
  BY Zenon DEF Edit, SwitchAction, SwitchKind, SwitchType, TypeName, PickGrantee,
            JumpToSourceRole, PickRole, PickObjectType, TypePlace, TogglePrivilege,
            ApplyPreset, SetGrantOption, LoadGrantIntoForm
<1>2. QED
  BY <1>1, Zenon DEF Change, Edit, executions

LEMMA GrantsNext == FitInv /\ MountInv /\ GrantsInv /\ [Next]_vars => GrantsInv'
<1> SUFFICES ASSUME FitInv, MountInv, GrantsInv, [Next]_vars, Mounted', ~grantsDue', ~stray'
             PROVE  LastIsOfGrantee' /\ (RunHasLanded' \/ (LastReadIsHeld' /\ ShownIsHeld'))
  BY DEF GrantsInv
<1> DEFINE Goal == LastIsOfGrantee' /\ (RunHasLanded' \/ (LastReadIsHeld' /\ ShownIsHeld'))
<1>a. ASSUME form'.name = form.name, form'.type = form.type, Mounted, ~grantsDue, ~stray,
             RunHasLanded => RunHasLanded', UNCHANGED <<cluster, lookups, shown>>
      PROVE  Goal
  BY <1>a, RowsOfStable
     DEF GrantsInv, LastIsOfGrantee, LastReadIsHeld, ShownIsHeld, RowsAreHeld
<1>b. (Mount(form') \/ Unmount) => FALSE
  BY DEF Mount, Unmount, Mounted
<1>1. ASSUME NEW f \in Prefills, OpenWizard(f) PROVE Goal
  BY <1>1, <1>b DEF OpenWizard, Mount
<1>2. CASE CloseByEscape \/ Cancel \/ SessionLost
  BY <1>b, <1>2 DEF CloseByEscape, Cancel, SessionLost, Close
<1>3. CASE LogIn
  <2>1. CASE open
    BY <1>b, <1>3, <2>1 DEF LogIn, Mount
  <2>2. CASE ~open
    BY <1>a, <1>3, <2>2 DEF LogIn, body, lookupVars, executions, RunHasLanded, Mounted
  <2>3. QED
    BY <2>1, <2>2
<1>4. CASE Edit
  BY <1>a, <1>4, EditFollowsGrantee DEF Edit, RunHasLanded
<1>5. CASE ToggleKeepOpen \/ AskConfirm \/ Back \/ PreviewFires \/ PreviewAnswers
  BY <1>a, <1>5
     DEF ToggleKeepOpen, AskConfirm, Back, PreviewFires, PreviewAnswers, body, lookupVars,
         executions, RunHasLanded, Mounted
<1>6. CASE Confirm
  <2>1. UNCHANGED <<cluster, form, lookups, shown, grantsDue, stray>> /\ runs \subseteq runs'
    BY <1>6 DEF Confirm, lookupVars
  <2>2. QED
    BY <1>a, <2>1 DEF RunHasLanded, Mounted
<1>7. CASE LookupFires
  <2>1. \A l \in lookups : DOMAIN l = LookupFields
    BY DEF FitInv, LookupsFit
  <2>2. \A l \in Older(lookups) : ~l.last
    BY <2>1 DEF Older, LookupFields
  <2>3. UNCHANGED <<form, cluster>>
    BY <1>7 DEF LookupFires, body
  <2>4. CASE form.name = Blank
    <3>1. lookups' = Older(lookups) /\ shown'.rows = {}
      BY <1>7, <2>4 DEF LookupFires, NothingShown
    <3>2. RowsOf(form.name, form.type)' = {}
      BY <2>3, <2>4, DialogConstants DEF RowsOf
    <3>3. QED
      BY <2>2, <3>1, <3>2 DEF LastIsOfGrantee, LastReadIsHeld, ShownIsHeld, RowsAreHeld
  <2>5. CASE form.name # Blank
    <3> DEFINE asked == [name |-> form.name, type |-> form.type, read |-> FALSE,
                         rows |-> {}, last |-> TRUE]
    <3>1. lookups' = Older(lookups) \cup {asked} /\ shown' = [shown EXCEPT !.last = FALSE]
      BY <1>7, <2>5 DEF LookupFires
    <3>2. ~asked.read /\ asked.name = form'.name /\ asked.type = form'.type
      BY <2>3
    <3>3. ~shown'.last
      BY <3>1 DEF FitInv, ShownFits, ShownFields
    <3> HIDE DEF asked
    <3>4. QED
      BY <2>2, <3>1, <3>2, <3>3 DEF LastIsOfGrantee, LastReadIsHeld, ShownIsHeld
  <2>6. QED
    BY <2>4, <2>5
<1>8. CASE LookupReads
  <2>1. PICK l \in lookups :
          lookups' = (lookups \ {l}) \cup
                       {[l EXCEPT !.read = TRUE, !.rows = RowsOf(l.name, l.type)]}
    BY <1>8 DEF LookupReads
  <2>2. UNCHANGED <<form, cluster, shown, grantsDue, runs, stray>>
    BY <1>8 DEF LookupReads, body, executions
  <2> DEFINE m == [l EXCEPT !.read = TRUE, !.rows = RowsOf(l.name, l.type)]
  <2>3. DOMAIN l = LookupFields
    BY DEF FitInv, LookupsFit
  <2>4. m.name = l.name /\ m.type = l.type /\ m.last = l.last /\ m.rows = RowsOf(l.name, l.type)
    BY <2>3 DEF LookupFields
  <2>5. lookups' = (lookups \ {l}) \cup {m}
    BY <2>1
  <2> HIDE DEF m
  <2>6. LastIsOfGrantee /\ (RunHasLanded \/ (LastReadIsHeld /\ ShownIsHeld))
    BY <2>2 DEF GrantsInv, Mounted
  <2>7. RunHasLanded' = RunHasLanded
    BY <2>2 DEF RunHasLanded
  <2>8. LastIsOfGrantee'
    BY <2>2, <2>4, <2>5, <2>6 DEF LastIsOfGrantee
  <2>9. RowsOf(form.name, form.type)' = RowsOf(form.name, form.type)
    BY <2>2 DEF RowsOf, cluster
  <2>10. m.last => RowsAreHeld(m.rows)
    BY <2>4, <2>6 DEF LastIsOfGrantee, RowsAreHeld
  <2>11. LastReadIsHeld => LastReadIsHeld'
    BY <2>5, <2>9, <2>10 DEF LastReadIsHeld, RowsAreHeld
  <2>12. ShownIsHeld => ShownIsHeld'
    BY <2>2, <2>9 DEF ShownIsHeld, RowsAreHeld
  <2>13. QED
    BY <2>6, <2>7, <2>8, <2>11, <2>12
<1>9. CASE LookupAnswers
  <2>1. PICK l \in lookups :
          /\ l.read
          /\ lookups' = lookups \ {l}
          /\ shown' \in {[rows |-> l.rows, last |-> l.last, failed |-> FALSE],
                         [rows |-> {}, last |-> l.last, failed |-> TRUE]}
    BY <1>9 DEF LookupAnswers
  <2>2. UNCHANGED <<form, cluster, grantsDue, runs, stray>>
    BY <1>9 DEF LookupAnswers, body, executions
  <2>3. LastIsOfGrantee /\ (RunHasLanded \/ (LastReadIsHeld /\ ShownIsHeld))
    BY <2>2 DEF GrantsInv, Mounted
  <2>4. RunHasLanded' = RunHasLanded
    BY <2>2 DEF RunHasLanded
  <2>5. RowsOf(form.name, form.type)' = RowsOf(form.name, form.type)
    BY <2>2 DEF RowsOf, cluster
  <2>6. shown'.last /\ ~shown'.failed => l.last /\ shown'.rows = l.rows
    BY <2>1
  <2>7. LastReadIsHeld => LastReadIsHeld' /\ ShownIsHeld'
    BY <2>1, <2>5, <2>6 DEF LastReadIsHeld, ShownIsHeld, RowsAreHeld
  <2>8. LastIsOfGrantee'
    BY <2>1, <2>2, <2>3 DEF LastIsOfGrantee
  <2>9. QED
    BY <2>3, <2>4, <2>7, <2>8
<1>10. CASE RunLands
  <2>1. PICK r \in runs : /\ runs' = (runs \ {r}) \cup {[r EXCEPT !.landed = TRUE]}
                         /\ stray' = (stray \/ ~r.mine)
    BY <1>10 DEF RunLands
  <2>2. DOMAIN r = RunFields
    BY DEF MountInv
  <2>3. [r EXCEPT !.landed = TRUE].mine = r.mine /\ [r EXCEPT !.landed = TRUE].landed
    BY <2>2 DEF RunFields
  <2>4. r.mine /\ ~stray
    BY <2>1
  <2>5. RunHasLanded'
    BY <2>1, <2>3, <2>4 DEF RunHasLanded
  <2>6. UNCHANGED <<form, lookups, grantsDue>>
    BY <1>10 DEF RunLands, body, lookupVars
  <2>7. LastIsOfGrantee'
    BY <2>4, <2>6 DEF GrantsInv, LastIsOfGrantee, Mounted
  <2>8. QED
    BY <2>5, <2>7
<1>11. CASE RunEnds
  <2>1. PICK r \in runs, ok \in BOOLEAN :
          /\ IF ok /\ ~r.keep
             THEN Close
             ELSE /\ runs' = runs \ {r}
                  /\ IF r.mine THEN ResetAndRefetch ELSE UNCHANGED <<body, previewVars, lookupVars>>
          /\ UNCHANGED <<cluster, stray>>
    BY <1>11 DEF RunEnds
  <2>2. runs' = runs \ {r} /\ ~r.mine /\ UNCHANGED <<body, lookupVars>>
    BY <1>b, <2>1 DEF Close, ResetAndRefetch
  <2>3. RunHasLanded => RunHasLanded'
    BY <2>2 DEF RunHasLanded
  <2>4. QED
    BY <1>a, <2>1, <2>2, <2>3 DEF body, lookupVars, Mounted
<1>12. CASE UNCHANGED vars
  BY <1>a, <1>12 DEF vars, body, lookupVars, executions, RunHasLanded, Mounted
<1>13. QED
  BY <1>1, <1>2, <1>3, <1>4, <1>5, <1>6, <1>7, <1>8, <1>9, <1>10, <1>11, <1>12
     DEF Next, User, Machine

(* In the same quiet the grants shown are those the grantee holds after     *)
(* everything the dialog executed (useGranteeGrants.ts:19-60).              *)
THEOREM QuietGrantsFollowTheCluster == Spec => []QuietGrantsAreHeld
<1>1. Init => GrantsInv
  BY GrantsInit
<1>2. FitInv /\ MountInv /\ GrantsInv /\ [Next]_vars => GrantsInv'
  BY GrantsNext
<1>3. GrantsInv => QuietGrantsAreHeld
  BY DEF GrantsInv, RunHasLanded, ShownIsHeld, RowsAreHeld, QuietGrantsAreHeld
<1>4. QED
  BY <1>1, <1>2, <1>3, DialogInvariant, PTL DEF Spec
=============================================================================
