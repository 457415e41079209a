---------------------------- MODULE GrantDialog ----------------------------
(***************************************************************************)
(* The Manage Privileges dialog (components/grants): it keeps a form, and  *)
(* three kinds of requests follow the form without stopping it, the        *)
(* debounced preview, the debounced lookup of the grantee's grants, and    *)
(* the execution of the confirmed request.  The answers of the first two   *)
(* are applied in whatever order they arrive.                              *)
(*                                                                         *)
(* Names and paths are model values.  A request is what buildRequest makes *)
(* of the form, its preview is identified with the request it shows.       *)
(***************************************************************************)
EXTENDS Naturals

CONSTANTS
  Users, Roles, \* the grantees of the cluster, by bare name
  Places,       \* databases and objects, as one path
  Privileges,   \* privilege keywords
  Fits,         \* the privileges of each object type
  Presets,      \* the intent presets
  StartHeld,    \* the privileges granted when the model starts
  StartParents, \* the roles granted when the model starts
  Blank,        \* an empty field
  None,         \* nothing
  MaxActs       \* bound: openings, edits and executions

Names == Users \cup Roles
ObjectTypes == {"CATALOG", "TABLE"}

(* A privilege granted on an object.  A CATALOG has no further path.       *)
Objects == {o \in [type : ObjectTypes, place : Places \cup {Blank}] :
              (o.type = "CATALOG") <=> (o.place = Blank)}
Grants == [grantee : Names, object : Objects, privilege : Privileges]

ASSUME DialogConstants ==
  /\ Users \cap Roles = {}
  /\ Blank \notin Names \cup Places
  /\ Fits \in [ObjectTypes -> SUBSET Privileges]
  /\ Presets \subseteq SUBSET Privileges
  /\ StartHeld \subseteq Grants
  /\ \A g \in StartHeld : g.privilege \in Fits[g.object.type]
  /\ StartParents \subseteq Names \X Roles
  /\ MaxActs \in Nat

Form == [action : {"GRANT", "REVOKE"}, kind : {"PRIVILEGE", "ROLE"},
         name : Names \cup {Blank}, type : {"USER", "ROLE"},
         objectType : ObjectTypes, place : Places \cup {Blank},
         privileges : SUBSET Privileges, grantOption : BOOLEAN,
         role : Roles \cup {Blank}]

(* The rows of the grantee lookup; source is "direct" or the parent role.  *)
Rows == [grant : Grants, source : Roles \cup {"direct"}]

(* A request, as buildRequest makes it: a field that does not apply to its *)
(* kind is absent.                                                         *)
Request == [action : {"GRANT", "REVOKE"}, kind : {"PRIVILEGE", "ROLE"},
            name : Names, type : {"USER", "ROLE"},
            object : Objects \cup {None}, privileges : SUBSET Privileges,
            grantOption : BOOLEAN, role : Roles \cup {Blank}]

ASSUME NoneIsNoValue == None \notin Form \cup Request \cup Objects

VARIABLES
  held, parents, \* the cluster: granted privileges and granted roles
  loggedIn,      \* whether App shows the workspace (and so the dialog)
  open,          \* wizardOpen of the grant store
  prefill,       \* the form the dialog starts from
  tick,          \* refreshTick
  form,          \* the form, None while the body is not mounted
  keepOpen, confirming, executing, \* state of the body
  previewDue,    \* the preview's debounce timer is armed
  previews,      \* previews in flight; `last` marks the one asked last
  preview,       \* the preview on the screen; whether it answers the last one
  grantsDue, lookups, shown, \* the same for the grantee lookup
  runs,          \* executions in flight
  stray,         \* history: a run took effect after its body was gone
  acts           \* counter of the bound

body == <<form, keepOpen, confirming, executing>>
previewVars == <<previewDue, previews, preview>>
lookupVars == <<grantsDue, lookups, shown>>
cluster == <<held, parents>>
shell == <<loggedIn, open, prefill>>
executions == <<runs, stray>>
vars == <<cluster, shell, tick, body, previewVars, lookupVars, executions, acts>>

Mounted == form # None

-----------------------------------------------------------------------------
(* useGrantForm                                                            *)

EmptyForm ==
  [action |-> "GRANT", kind |-> "PRIVILEGE", name |-> Blank, type |-> "USER",
   objectType |-> "TABLE", place |-> Blank, privileges |-> {},
   grantOption |-> FALSE, role |-> Blank]

TypeOf(name) == IF name \in Roles THEN "ROLE" ELSE "USER"

(* What the entry points prefill: nothing, a grantee (header, user panel,  *)
(* graph), an object (object panel, graph), or the revocation of a grant   *)
(* (a cell of the permission matrix).                                      *)
Prefills ==
  {EmptyForm}
  \cup {[EmptyForm EXCEPT !.name = n, !.type = TypeOf(n)] : n \in Names}
  \cup {[EmptyForm EXCEPT !.objectType = o.type, !.place = o.place] : o \in Objects}
  \cup {[EmptyForm EXCEPT !.action = "REVOKE", !.name = g.grantee,
                          !.type = TypeOf(g.grantee), !.objectType = g.object.type,
                          !.place = g.object.place, !.privileges = {g.privilege}] : g \in held}

(* The object of the form, None while a field it needs is empty.           *)
FormObject(f) ==
  IF f.objectType = "CATALOG" THEN [type |-> "CATALOG", place |-> Blank]
  ELSE IF f.place = Blank THEN None
  ELSE [type |-> f.objectType, place |-> f.place]

Complete(f) ==
  /\ f.name # Blank
  /\ IF f.kind = "ROLE" THEN f.role # Blank
                        ELSE f.privileges # {} /\ FormObject(f) # None

(* FAULT: the name is not asked for.                                       *)
BuildRequestAnonymous(f) ==
  IF ~Complete([f EXCEPT !.name = CHOOSE n \in Names : TRUE]) THEN None
  ELSE [action |-> f.action, kind |-> f.kind, name |-> f.name, type |-> f.type,
        object |-> IF f.kind = "ROLE" THEN None ELSE FormObject(f),
        privileges |-> IF f.kind = "ROLE" THEN {} ELSE f.privileges,
        grantOption |-> f.kind = "PRIVILEGE" /\ f.action = "GRANT" /\ f.grantOption,
        role |-> IF f.kind = "ROLE" THEN f.role ELSE Blank]

BuildRequest(f) ==
  IF ~Complete(f) THEN None
  ELSE [action |-> f.action, kind |-> f.kind, name |-> f.name, type |-> f.type,
        object |-> IF f.kind = "ROLE" THEN None ELSE FormObject(f),
        privileges |-> IF f.kind = "ROLE" THEN {} ELSE f.privileges,
        grantOption |-> f.kind = "PRIVILEGE" /\ f.action = "GRANT" /\ f.grantOption,
        role |-> IF f.kind = "ROLE" THEN f.role ELSE Blank]

-----------------------------------------------------------------------------
(* useGranteeGrants: the rows of a grantee and what follows from them      *)

(* What the backend answers: nothing for a name of the other type.         *)
RowsOf(name, type) ==
  LET own == {g \in held : g.grantee = name}
  IN IF name \notin Names \/ TypeOf(name) # type THEN {}
     ELSE {[grant |-> g, source |-> "direct"] : g \in own}
          \cup {[grant |-> g, source |-> g.grantee] :
                  g \in {h \in held : type = "ROLE" /\ <<name, h.grantee>> \in parents}}

NothingShown == [rows |-> {}, last |-> FALSE, failed |-> FALSE]

(* The current grants: none are shown before the first lookup.             *)
DirectRows == {r \in shown.rows : r.source = "direct"}
InheritedRows == shown.rows \ DirectRows

(* The privileges the rows give on the object of the form.                 *)
AlreadyGranted(f) ==
  {r.grant.privilege : r \in {s \in shown.rows : s.grant.object = FormObject(f)}}

-----------------------------------------------------------------------------
(* Mounting and unmounting the body                                        *)

NoPreview == [request |-> None, last |-> FALSE]

(* A new body asks for its preview and its lookup, both debounced.         *)
Mount(f) ==
  /\ form' = f
  /\ keepOpen' = FALSE /\ confirming' = FALSE /\ executing' = FALSE
  /\ previewDue' = TRUE /\ previews' = {} /\ preview' = NoPreview
  /\ grantsDue' = TRUE /\ lookups' = {} /\ shown' = NothingShown

(* The state of the body is gone, and the answers still on their way to it *)
(* change nothing.                                                         *)
Unmount ==
  /\ form' = None
  /\ keepOpen' = FALSE /\ confirming' = FALSE /\ executing' = FALSE
  /\ previewDue' = FALSE /\ previews' = {} /\ preview' = NoPreview
  /\ grantsDue' = FALSE /\ lookups' = {} /\ shown' = NothingShown

Orphaned(rs) == {[r EXCEPT !.mine = FALSE] : r \in rs}

Init ==
  /\ held = StartHeld /\ parents = StartParents
  /\ loggedIn = TRUE /\ open = FALSE /\ prefill = EmptyForm
  /\ tick = 0
  /\ form = None
  /\ keepOpen = FALSE /\ confirming = FALSE /\ executing = FALSE
  /\ previewDue = FALSE /\ previews = {} /\ preview = NoPreview
  /\ grantsDue = FALSE /\ lookups = {} /\ shown = NothingShown
  /\ runs = {} /\ stray = FALSE
  /\ acts = 0

OpenWizard(f) ==
  /\ loggedIn /\ ~open /\ acts < MaxActs
  /\ open' = TRUE /\ prefill' = f
  /\ Mount(f)
  /\ acts' = acts + 1
  /\ UNCHANGED <<cluster, loggedIn, tick, executions>>

Close ==
  /\ open' = FALSE /\ prefill' = EmptyForm
  /\ Unmount

(* Esc, the backdrop and the close button, all disabled while executing.   *)
CloseByEscape ==
  /\ Mounted /\ ~executing
  /\ Close
  /\ UNCHANGED <<cluster, loggedIn, tick, executions, acts>>

(* The Cancel button: not disabled while executing, but the footer only    *)
(* shows it while nothing is being confirmed.                              *)
Cancel ==
  /\ Mounted /\ ~confirming
  /\ Close
  /\ runs' = Orphaned(runs)
  /\ UNCHANGED <<cluster, loggedIn, tick, stray, acts>>

(* The session ends (a 401 of any request of the page): App unmounts the   *)
(* workspace, and the grant store keeps what it holds.                     *)
SessionLost ==
  /\ loggedIn
  /\ loggedIn' = FALSE
  /\ Unmount
  /\ runs' = Orphaned(runs)
  /\ UNCHANGED <<cluster, open, prefill, tick, stray, acts>>

(* The next login finds the dialog where the store left it.                *)
LogIn ==
  /\ ~loggedIn
  /\ loggedIn' = TRUE
  /\ IF open THEN Mount(prefill) ELSE UNCHANGED <<body, previewVars, lookupVars>>
  /\ UNCHANGED <<cluster, open, prefill, tick, executions, acts>>

-----------------------------------------------------------------------------
(* The form.  The preview follows every field of it, the lookup follows    *)
(* the grantee.  Nothing disables the form while a request is confirmed.   *)

(* FAULT: buildRequest's dependencies leave out the grant option.          *)
ChangeWithoutOption(f) ==
  /\ Mounted /\ f # form /\ acts < MaxActs
  /\ form' = f
  /\ previewDue' = (previewDue \/ [f EXCEPT !.grantOption = form.grantOption] # form)
  /\ grantsDue' = (grantsDue \/ f.name # form.name \/ f.type # form.type)
  /\ acts' = acts + 1

Change(f) ==
  /\ Mounted /\ f # form /\ acts < MaxActs
  /\ form' = f
  /\ previewDue' = TRUE
  /\ grantsDue' = (grantsDue \/ f.name # form.name \/ f.type # form.type)
  /\ acts' = acts + 1

SwitchAction == \E a \in {"GRANT", "REVOKE"} : Change([form EXCEPT !.action = a])
SwitchKind == \E k \in {"PRIVILEGE", "ROLE"} : Change([form EXCEPT !.kind = k])
SwitchType == \E t \in {"USER", "ROLE"} : Change([form EXCEPT !.type = t])
TypeName == \E n \in Names \cup {Blank} : Change([form EXCEPT !.name = n])

(* A suggestion brings the type along, and so does a jump to the role an   *)
(* inherited row comes from.                                               *)
PickGrantee ==
  \E n \in Names : Change([form EXCEPT !.name = n, !.type = TypeOf(n)])

JumpToSourceRole ==
  /\ Mounted /\ form.action = "REVOKE" /\ form.kind = "PRIVILEGE"
  /\ \E r \in InheritedRows : Change([form EXCEPT !.name = r.source, !.type = "ROLE"])

PickRole == form.kind = "ROLE" /\ \E r \in Roles : Change([form EXCEPT !.role = r])

(* FAULT: the selected privileges survive the change of the object type.   *)
PickObjectTypeKeeps ==
  /\ form.kind = "PRIVILEGE"
  /\ \E t \in ObjectTypes : Change([form EXCEPT !.objectType = t])

PickObjectType ==
  /\ form.kind = "PRIVILEGE"
  /\ \E t \in ObjectTypes : Change([form EXCEPT !.objectType = t, !.privileges = {}])

TypePlace ==
  /\ form.kind = "PRIVILEGE" /\ form.objectType # "CATALOG"
  /\ \E p \in Places \cup {Blank} : Change([form EXCEPT !.place = p])

(* The checkbox of a privilege: a revoke can only add one that is held.    *)
TogglePrivilege ==
  /\ form.kind = "PRIVILEGE"
  /\ \E p \in Fits[form.objectType] :
       /\ form.action = "GRANT" \/ p \in form.privileges \cup AlreadyGranted(form)
       /\ Change([form EXCEPT !.privileges = IF p \in @ THEN @ \ {p} ELSE @ \cup {p}])

ApplyPreset ==
  /\ form.kind = "PRIVILEGE" /\ form.action = "GRANT"
  /\ \E p \in Presets :
       /\ p \cap Fits[form.objectType] # {}
       /\ Change([form EXCEPT !.privileges = p \cap Fits[form.objectType]])

SetGrantOption ==
  /\ form.kind = "PRIVILEGE" /\ form.action = "GRANT"
  /\ Change([form EXCEPT !.grantOption = ~@])

(* A click on a direct row of the current grants.                          *)
LoadGrantIntoForm ==
  /\ form.kind = "PRIVILEGE" /\ form.action = "REVOKE"
  /\ \E r \in DirectRows :
       Change([form EXCEPT !.objectType = r.grant.object.type, !.place = r.grant.object.place,
                           !.privileges = {r.grant.privilege}])

Edit ==
  /\ Mounted
  /\ \/ SwitchAction \/ SwitchKind \/ SwitchType \/ TypeName \/ PickGrantee
     \/ JumpToSourceRole \/ PickRole \/ PickObjectType \/ TypePlace
     \/ TogglePrivilege \/ ApplyPreset \/ SetGrantOption \/ LoadGrantIntoForm
  /\ UNCHANGED <<cluster, shell, tick, keepOpen, confirming, executing,
                 previews, preview, lookups, shown, executions>>

ToggleKeepOpen ==
  /\ Mounted /\ ~confirming
  /\ keepOpen' = ~keepOpen
  /\ UNCHANGED <<cluster, shell, tick, form, confirming, executing,
                 previewVars, lookupVars, executions, acts>>

-----------------------------------------------------------------------------
(* useGrantPreview                                                         *)

Older(inFlight) == {[q EXCEPT !.last = FALSE] : q \in inFlight}

(* The debounce is over: an incomplete form clears the preview, a complete *)
(* one sends a request.                                                    *)
PreviewFires ==
  /\ previewDue
  /\ previewDue' = FALSE
  /\ LET req == BuildRequest(form) IN
       IF req = None
       THEN previews' = Older(previews) /\ preview' = [request |-> None, last |-> TRUE]
       ELSE /\ previews' = Older(previews) \cup {[request |-> req, last |-> TRUE]}
            /\ preview' = [preview EXCEPT !.last = FALSE]
  /\ UNCHANGED <<cluster, shell, tick, body, lookupVars, executions, acts>>

(* Any answer is shown, whatever was asked since; an error empties it.     *)
PreviewAnswers ==
  \E q \in previews :
    /\ previews' = previews \ {q}
    /\ preview' \in {q, [request |-> None, last |-> q.last]}
    /\ UNCHANGED <<cluster, shell, tick, body, previewDue, lookupVars, executions, acts>>

-----------------------------------------------------------------------------
(* useGranteeGrants: the debounced lookup                                  *)

LookupFires ==
  /\ grantsDue
  /\ grantsDue' = FALSE
  /\ IF form.name = Blank
     THEN lookups' = Older(lookups) /\ shown' = [NothingShown EXCEPT !.last = TRUE]
     ELSE /\ lookups' = Older(lookups) \cup
               {[name |-> form.name, type |-> form.type, read |-> FALSE, rows |-> {}, last |-> TRUE]}
          /\ shown' = [shown EXCEPT !.last = FALSE]
  /\ UNCHANGED <<cluster, shell, tick, body, previewVars, executions, acts>>

(* The backend reads the grants: for a user in a second request, because   *)
(* the bare name finds nothing where users are 'name'@'host'.              *)
LookupReads ==
  \E l \in lookups :
    /\ ~l.read
    /\ lookups' = (lookups \ {l}) \cup
                  {[l EXCEPT !.read = TRUE, !.rows = RowsOf(l.name, l.type)]}
    /\ UNCHANGED <<cluster, shell, tick, body, previewVars, grantsDue, shown, executions, acts>>

(* The rows are shown, whatever was looked up since; an error looks like a *)
(* grantee without grants.                                                 *)
LookupAnswers ==
  \E l \in lookups :
    /\ l.read
    /\ lookups' = lookups \ {l}
    /\ shown' \in {[rows |-> l.rows, last |-> l.last, failed |-> FALSE],
                  [rows |-> {}, last |-> l.last, failed |-> TRUE]}
    /\ UNCHANGED <<cluster, shell, tick, body, previewVars, grantsDue, executions, acts>>

-----------------------------------------------------------------------------
(* useGrantExecutor and ModalFooter                                        *)

(* Execute: offered while there is a preview, whatever it is a preview of. *)
AskConfirm ==
  /\ Mounted /\ ~confirming /\ preview.request # None
  /\ confirming' = TRUE
  /\ UNCHANGED <<cluster, shell, tick, form, keepOpen, executing, previewVars,
                 lookupVars, executions, acts>>

Back ==
  /\ confirming /\ ~executing
  /\ confirming' = FALSE
  /\ UNCHANGED <<cluster, shell, tick, form, keepOpen, executing, previewVars,
                 lookupVars, executions, acts>>

Run(req) == [request |-> req, previewed |-> preview.request, keep |-> keepOpen,
             mine |-> TRUE, landed |-> FALSE, no |-> acts]

(* FAULT: the confirmation is over as soon as the request is sent.         *)
ConfirmLeaves ==
  /\ confirming /\ ~executing /\ acts < MaxActs
  /\ BuildRequest(form) # None
  /\ runs' = runs \cup {Run(BuildRequest(form))}
  /\ executing' = TRUE /\ confirming' = FALSE
  /\ acts' = acts + 1
  /\ UNCHANGED <<cluster, shell, tick, form, keepOpen, previewVars,
                 lookupVars, stray>>

(* Confirm: the request is built from the form as it is now.               *)
Confirm ==
  /\ confirming /\ ~executing /\ acts < MaxActs
  /\ BuildRequest(form) # None
  /\ runs' = runs \cup {Run(BuildRequest(form))}
  /\ executing' = TRUE
  /\ acts' = acts + 1
  /\ UNCHANGED <<cluster, shell, tick, form, keepOpen, confirming, previewVars,
                 lookupVars, stray>>

(* The statement takes effect in the cluster.                              *)
RunLands ==
  \E r \in runs :
    LET q == r.request
        rows == {[grantee |-> q.name, object |-> q.object, privilege |-> p] : p \in q.privileges}
        edge == <<q.name, q.role>>
        put(all, some) == IF q.action = "GRANT" THEN all \cup some ELSE all \ some
    IN
      /\ ~r.landed /\ q.type = TypeOf(q.name) /\ q.role # q.name
      /\ runs' = (runs \ {r}) \cup {[r EXCEPT !.landed = TRUE]}
      /\ IF q.kind = "ROLE" THEN parents' = put(parents, {edge}) /\ UNCHANGED held
                            ELSE held' = put(held, rows) /\ UNCHANGED parents
      /\ stray' = (stray \/ ~r.mine)
      /\ UNCHANGED <<shell, tick, body, previewVars, lookupVars, acts>>

(* FAULT: after an execution that keeps the dialog, the grants are not     *)
(* looked up again.                                                        *)
ResetAndStay ==
  /\ form' = [form EXCEPT !.privileges = {}, !.grantOption = FALSE]
  /\ previewDue' = TRUE /\ grantsDue' = grantsDue
  /\ executing' = FALSE /\ confirming' = FALSE
  /\ UNCHANGED <<keepOpen, previews, preview, lookups, shown>>

(* FAULT: the executing flag is only reset by an answer that closes.       *)
ResetAndHang ==
  /\ form' = [form EXCEPT !.privileges = {}, !.grantOption = FALSE]
  /\ previewDue' = (previewDue \/ form' # form) /\ grantsDue' = TRUE
  /\ UNCHANGED <<executing, confirming, keepOpen, previews, preview, lookups, shown>>

(* onKeepOpenReset: the form loses its privileges, the grants are looked   *)
(* up again.  Without a change buildRequest keeps its identity.            *)
ResetAndRefetch ==
  /\ form' = [form EXCEPT !.privileges = {}, !.grantOption = FALSE]
  /\ previewDue' = (previewDue \/ form' # form) /\ grantsDue' = TRUE
  /\ executing' = FALSE /\ confirming' = FALSE
  /\ UNCHANGED <<keepOpen, previews, preview, lookups, shown>>

(* runRequests goes on when the answer is there.  An answer may also be    *)
(* lost after the statement took effect.  A run that has lost its body     *)
(* still bumps refreshTick, and still closes the dialog that is open.      *)
RunEnds ==
  \E r \in runs, ok \in BOOLEAN :
    /\ ok => r.landed
    /\ tick' = IF ok THEN tick + 1 ELSE tick
    /\ IF ok /\ ~r.keep
       THEN /\ Close
            /\ runs' = Orphaned(runs \ {r})
       ELSE /\ runs' = runs \ {r}
            /\ IF r.mine THEN ResetAndRefetch ELSE UNCHANGED <<body, previewVars, lookupVars>>
            /\ UNCHANGED <<open, prefill>>
    /\ UNCHANGED <<cluster, loggedIn, stray, acts>>

-----------------------------------------------------------------------------
Machine == PreviewFires \/ PreviewAnswers \/ LookupFires \/ LookupReads \/ LookupAnswers

User ==
  \/ \E f \in Prefills : OpenWizard(f)
  \/ CloseByEscape \/ Cancel \/ SessionLost \/ LogIn \/ Edit \/ ToggleKeepOpen
  \/ AskConfirm \/ Back \/ Confirm

Next == User \/ Machine \/ RunLands \/ RunEnds

Spec == Init /\ [][Next]_vars

(* A browser's request ends, with an answer or with an error; its timers   *)
(* fire.  Nothing is asked of the user or of the cluster.                  *)
FairSpec == Spec /\ WF_vars(Machine) /\ WF_vars(RunEnds)

-----------------------------------------------------------------------------
TypeOK ==
  /\ held \subseteq Grants /\ parents \subseteq Names \X Roles
  /\ loggedIn \in BOOLEAN /\ open \in BOOLEAN /\ prefill \in Form
  /\ tick \in Nat
  /\ form \in Form \cup {None}
  /\ keepOpen \in BOOLEAN /\ confirming \in BOOLEAN /\ executing \in BOOLEAN
  /\ previewDue \in BOOLEAN
  /\ previews \subseteq [request : Request, last : BOOLEAN]
  /\ preview \in [request : Request \cup {None}, last : BOOLEAN]
  /\ grantsDue \in BOOLEAN
  /\ lookups \subseteq [name : Names, type : {"USER", "ROLE"}, read : BOOLEAN,
                        rows : SUBSET Rows, last : BOOLEAN]
  /\ shown \in [rows : SUBSET Rows, last : BOOLEAN, failed : BOOLEAN]
  /\ runs \subseteq [request : Request, previewed : Request \cup {None}, keep : BOOLEAN,
                     mine : BOOLEAN, landed : BOOLEAN, no : Nat]
  /\ stray \in BOOLEAN /\ acts \in Nat

(* What build_statements and the object's shape check accept.              *)
Acceptable(q) ==
  /\ q.name # Blank
  /\ q.kind = "ROLE" => q.role # Blank /\ q.object = None /\ q.privileges = {} /\ ~q.grantOption
  /\ q.kind = "PRIVILEGE" =>
       /\ q.object \in Objects
       /\ q.privileges # {} /\ q.privileges \subseteq Fits[q.object.type]
  /\ q.action = "REVOKE" => ~q.grantOption

(* No order of edits, presets, loaded rows and resets lets the dialog send *)
(* a request build_statements would refuse: a revocation never carries     *)
(* WITH GRANT OPTION, and a privilege always fits the type of the object.  *)
RequestsAcceptable ==
  /\ \A r \in runs : Acceptable(r.request)
  /\ \A p \in previews : Acceptable(p.request)

(* Once the debounce is over and no request is in flight, the preview on   *)
(* the screen is that of the form, or empty: unless an older answer came   *)
(* in last, which nothing prevents.                                        *)
QuietPreviewIsOfForm ==
  Mounted /\ ~previewDue /\ previews = {} /\ preview.last =>
    preview.request \in {BuildRequest(form), None}

(* In the same quiet, the grants shown are those the grantee holds in the  *)
(* cluster after everything this dialog executed: unless an older answer   *)
(* came in last, the lookup failed, or another body's run is in the way.   *)
QuietGrantsAreHeld ==
  Mounted /\ ~grantsDue /\ lookups = {} /\ runs = {} /\ shown.last /\ ~shown.failed
    /\ form.name # Blank /\ ~stray =>
    shown.rows = RowsOf(form.name, form.type)

(* At most one execution belongs to the dialog that is mounted; while it   *)
(* runs, the footer stays on the confirmation, which is what keeps Cancel, *)
(* Execute and the keep-open switch out of reach.                          *)
OneRunPerBody ==
  /\ \A r, s \in runs : r.mine /\ s.mine => r = s
  /\ executing <=> \E r \in runs : r.mine
  /\ executing => confirming /\ Mounted

(* Every execution the user started ends, and the dialog is usable again.  *)
ExecutionEnds == executing ~> ~executing

(* ModalFooter.tsx:36 asks "Execute the previewed SQL against the cluster?" *)
ExecutesThePreviewed == \A r \in runs : r.request = r.previewed
=============================================================================
