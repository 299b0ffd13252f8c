--------------------------- MODULE DepartmentForm ---------------------------
(***************************************************************************)
(* The modal form of a department in a browser (templates/partials/        *)
(* form_modal.html), validated while the user types                        *)
(* (static/js/rankvista-validate.js, apps/common/validation.py) and then   *)
(* posted to the handlers of Directory.                                    *)
(*                                                                         *)
(* Typing starts a timer; when it fires, the fields go to the server,      *)
(* which reports on those the user has touched.  Nothing orders or cancels *)
(* these calls: answers arrive in any order, or not at all, also while a   *)
(* post is under way or the form has been closed.                          *)
(*                                                                         *)
(* htmx (1.9.12, templates/base.html:27) is outside the repository: it     *)
(* swaps a response into the page only when its status is below 400.       *)
(*                                                                         *)
(* Left out: the checkbox and the description, the texts of the errors.    *)
(***************************************************************************)
EXTENDS Directory

CONSTANTS
  Settings,  \* bound: whether the browser is used, how many other requests there are at
             \* a time, what they ask for, and how many validations are under way
  Blank,     \* what an empty field holds
  FormNames, \* bound: what the user enters as a name ...
  FormCodes, \* ... and as a code
  NoForm, NoThread

ASSUME SettingsKnown ==
  \A s \in Settings : s.browser \in BOOLEAN /\ s.rivals \in Nat /\ s.calls \in Nat
ASSUME EntriesKnown ==
  FormNames \subseteq Names \cup {Blank} /\ FormCodes \subseteq Codes \cup {Blank}

Fields == {"name", "code"}
Contents == [name : Names \cup {Blank}, code : Codes \cup {Blank}]
FormState ==
  [pk : Depts \cup {NoDept}, content : Contents, touched : SUBSET Fields, timer : BOOLEAN,
   painted : [Fields -> {"none", "valid", "invalid"}], blocked : BOOLEAN,
   disabled : BOOLEAN, post : Threads \cup {NoThread}, posted : Contents]

ASSUME NoFormIsNoForm == NoForm \notin FormState

VARIABLES
  setting,
  form,    \* the form that is open: pk, what its fields hold, the fields touched, whether
           \* the timer runs, what is painted on each field and on the button, whether
           \* the button is disabled, the thread that serves the post and what was posted
  calls,   \* validations under way for this form: what was sent, and the verdict when the
           \* server has given it; current, no later call was sent and no department
           \* changed since the verdict
  history  \* of this form: told, the last answer painted was current and is; refused, a
           \* post was

browserVars == <<setting, form, calls, history>>
formVars == <<vars, browserVars>>

NoHistory == [told |-> FALSE, refused |-> FALSE]

FormInit ==
  /\ Init
  /\ setting \in Settings
  /\ form = NoForm /\ calls = {} /\ history = NoHistory

-----------------------------------------------------------------------------
(* The server. *)

(* form.errors: the fields that are empty or clash. *)
Errors(pk, content) ==
  {f \in Fields :
     \/ content[f] = Blank
     \/ \E e \in Depts \ {pk} :
           Live(e) /\ IF f = "name" THEN Folded[depts[e].name] = Folded[content.name]
                      ELSE depts[e].code = Normalised(content.code)}

Verdict(pk, content, f) == IF f \in Errors(pk, content) THEN "invalid" ELSE "valid"

(* department_validate: the touched fields only; 404 when the department is gone. *)
Answer(c) ==
  /\ c \in calls /\ c.verdict = <<>>
  /\ form.pk \in {NoDept} \cup {d \in Depts : Live(d)}
  /\ calls' = (calls \ {c}) \cup
       {[c EXCEPT !.verdict = [f \in c.touched |-> Verdict(form.pk, c.content, f)]]}
  /\ UNCHANGED <<vars, setting, form, history>>

-----------------------------------------------------------------------------
(* rankvista-validate.js. *)

NewForm(pk, content) ==
  [pk |-> pk, content |-> content, touched |-> {}, timer |-> FALSE,
   painted |-> [f \in Fields |-> "none"], blocked |-> FALSE, disabled |-> FALSE,
   post |-> NoThread, posted |-> content]

Open(pk) ==
  /\ setting.browser /\ form = NoForm
  /\ pk \in {NoDept} \cup {d \in Depts : Live(d)}
  /\ form' = NewForm(pk, IF pk = NoDept THEN [name |-> Blank, code |-> Blank]
                         ELSE [name |-> depts[pk].name, code |-> depts[pk].code])
  /\ UNCHANGED <<vars, setting, calls, history>>

(* What arrives for a form that is gone changes nothing on the page. *)
Gone == form' = NoForm /\ calls' = {} /\ history' = NoHistory

Close ==
  /\ form # NoForm /\ form.post = NoThread
  /\ Gone
  /\ UNCHANGED <<vars, setting>>

(* Mutant: no new timer while a call is under way. *)
Type_Throttled(f, value) ==
  /\ form # NoForm /\ form.content[f] # value
  /\ form' = [form EXCEPT !.content[f] = value, !.touched = @ \cup {f},
                          !.timer = @ \/ calls = {}]
  /\ UNCHANGED <<vars, setting, calls, history>>

(* schedule, at every key: the timer starts anew.  Leaving a field does nothing: the call
   that should bind "blur" (rankvista-validate.js:94-96) has its handler and its data the
   wrong way round, and jQuery 3.7.1 throws on it. *)
Type(f, value) ==
  /\ form # NoForm /\ form.content[f] # value
  /\ form' = [form EXCEPT !.content[f] = value, !.touched = @ \cup {f}, !.timer = TRUE]
  /\ UNCHANGED <<vars, setting, calls, history>>

(* validate. *)
Fire ==
  /\ form # NoForm /\ form.timer /\ Cardinality(calls) < setting.calls
  /\ form' = [form EXCEPT !.timer = FALSE]
  /\ calls' = {[c EXCEPT !.current = FALSE] : c \in calls} \cup
       {[content |-> form.content, touched |-> form.touched, verdict |-> <<>>,
         current |-> TRUE]}
  /\ history' = [history EXCEPT !.told = FALSE]
  /\ UNCHANGED <<vars, setting>>

(* paint: touched is the set as it is by now, shared with later calls; a field that was
   touched after the call was sent has neither an error in the answer nor a tick. *)
Paint(c) ==
  /\ c \in calls /\ c.verdict # <<>>
  /\ form' = [form EXCEPT
       !.painted = [f \in Fields |->
          IF f \notin form.touched THEN form.painted[f]
          ELSE IF f \in c.touched THEN c.verdict[f] ELSE "none"],
       !.blocked = \E f \in c.touched : c.verdict[f] = "invalid"]
  /\ calls' = calls \ {c}
  /\ history' = [history EXCEPT !.told = c.current]
  /\ UNCHANGED <<vars, setting>>

(* "Validation is an aid": an error, of the network or the server, is dropped. *)
Lose(c) ==
  /\ c \in calls
  /\ calls' = calls \ {c}
  /\ UNCHANGED <<vars, setting, form, history>>

-----------------------------------------------------------------------------
(* The post: hx-post of form_modal.html, markLoading of rankvista-shell.js. *)

Posting == form # NoForm /\ form.post # NoThread

Submit(t) ==
  /\ form # NoForm /\ ~form.disabled
  /\ IF form.pk = NoDept THEN \E d \in Depts : StartCreate(t, d)
     ELSE LoadDept(t, "edit", form.pk)
  /\ form' = [form EXCEPT !.disabled = TRUE, !.post = t, !.posted = form.content]
  /\ UNCHANGED <<setting, calls, history>>

(* The department is gone: status 404, no swap either. *)
SubmitMissing ==
  /\ form # NoForm /\ ~form.disabled
  /\ form.pk # NoDept /\ ~Live(form.pk)
  /\ form' = [form EXCEPT !.disabled = TRUE]
  /\ UNCHANGED <<vars, setting, calls, history>>

Accept(t) ==
  /\ form.posted.name # Blank /\ form.posted.code # Blank
  /\ CheckDept(t, form.posted.name, form.posted.code, TRUE)
  /\ UNCHANGED browserVars

(* The modal comes back with its errors and status 422: no swap, a message, and the
   button stays as it is. *)
Refuse(t) ==
  /\ req[t].at = "loaded"
  /\ Errors(form.pk, form.posted) # {}
  /\ Finish(t)
  /\ form' = [form EXCEPT !.post = NoThread]
  /\ history' = [history EXCEPT !.refused = TRUE]
  /\ UNCHANGED <<depts, member, overtaken, setting, calls>>

(* HX-Redirect leaves the page; a breach of an index is status 500. *)
Saved(t) ==
  /\ SaveDept(t)
  /\ IF Indexed(req[t].dept, req[t].copy)
       THEN form' = [form EXCEPT !.post = NoThread] /\ UNCHANGED <<calls, history>>
       ELSE Gone
  /\ UNCHANGED setting

PostLost(t) ==
  /\ Abandon(t)
  /\ form' = [form EXCEPT !.post = NoThread]
  /\ UNCHANGED <<setting, calls, history>>

Post(t) == Accept(t) \/ Refuse(t) \/ Saved(t) \/ PostLost(t)

-----------------------------------------------------------------------------
(* The other threads serve what other browsers ask for. *)
Rival(t) ==
  /\ \/ req[t] # NoRequest
     \/ Cardinality({s \in Threads : req[s] # NoRequest /\ ~(Posting /\ form.post = s)})
          < setting.rivals
  /\ Serve(t) /\ req'[t].op \in setting.ops \cup {"none"}
  /\ IF depts' = depts THEN UNCHANGED <<calls, history>>
     ELSE /\ calls' = {[c EXCEPT !.current = @ /\ c.verdict = <<>>] : c \in calls}
          /\ history' = [history EXCEPT !.told = FALSE]
  /\ UNCHANGED <<setting, form>>

User ==
  \/ \E pk \in Depts \cup {NoDept} : Open(pk)
  \/ \E n \in FormNames : Type("name", n)
  \/ \E k \in FormCodes : Type("code", k)
  \/ \E t \in Threads : Submit(t)
  \/ SubmitMissing
  \/ Close

FormNext ==
  \/ User
  \/ Fire
  \/ \E c \in calls : Answer(c) \/ Paint(c) \/ Lose(c)
  \/ \E t \in Threads : IF Posting /\ form.post = t THEN Post(t) ELSE Rival(t)

FormSpec == FormInit /\ [][FormNext]_formVars

-----------------------------------------------------------------------------
(* Properties. *)

(* rankvista-validate.js:20-70, 83-88.  When nothing is under way and the last answer painted
   was that of the latest call, every touched field shows what the server says of what
   it holds now, and the button is dimmed exactly when one of them is in error. *)
VerdictsSettle ==
  form # NoForm /\ ~form.timer /\ calls = {} /\ history.told =>
    /\ \A f \in form.touched : form.painted[f] = Verdict(form.pk, form.content, f)
    /\ form.blocked <=> \E f \in form.touched : form.painted[f] = "invalid"

(* form_modal.html:1: "HTMX posts back into itself so validation errors re-render in
   place": a form that was refused shows an error, or can be submitted again. *)
RefusalShown ==
  history.refused => ~form.disabled \/ \E f \in Fields : form.painted[f] = "invalid"
=============================================================================
