------------------------------ MODULE TrustProofs ------------------------------
(***************************************************************************)
(* Proofs about whose remote images are loaded: the trusted senders in the *)
(* configuration file among all its writers (Settings), and the views that *)
(* follow them (MessageView), for every set of messages, every limit on    *)
(* windows and any number of failing writes.                               *)
(***************************************************************************)
EXTENDS MessageView, Settings, TLAPS

(***************************************************************************)
(* Settings.  The invariant also says what the other writers start from:   *)
(* the running program has a valid page size, the dialog has no launch     *)
(* name but the one it was opened with, and the file validates even while  *)
(* another program keeps it from being parsed.                             *)
(***************************************************************************)
Modes == {"stdin", "template"}
Apps == [up : BOOLEAN, page : {0, 1}, name : {0, 1, FromNotmuch}, args : ArgLists, mode : Modes,
         hidden : BOOLEAN, kept : SUBSET Lists]
Forms == [page : {0, 1}, name : {0, 1, FromNotmuch}, args : ArgLists, mode : Modes,
          hidden : BOOLEAN, open : BOOLEAN]

SettingsTypes ==
  /\ file \in [ok : BOOLEAN, c : Config] /\ app \in Apps /\ form \in Forms
  /\ tagging \in BOOLEAN /\ chosen \in {0, 1} /\ left \in 0..MaxConfigFaults

FormOfThisRun == form.open => app.up /\ form.name \in {0, 1, app.name}
AppValid == app.up => app.page # 0

SettingsInv ==
  /\ SettingsTypes /\ FormOfThisRun /\ AppValid
  /\ Validates(file.c) /\ TrustIsOnDisk

(* parse_string_list keeps the argument that names the file. *)
LEMMA ReparsedArgs ==
  ASSUME NEW a \in ArgLists
  PROVE  Reparsed(a) \in ArgLists /\ (HasFile(a) <=> HasFile(Reparsed(a)))
  BY DEF Reparsed, ArgLists, HasFile

LEMMA SettingsInitInv == SettingsInit => SettingsInv
  <1> SUFFICES ASSUME SettingsInit PROVE SettingsInv
    OBVIOUS
  <1>1. PICK n \in {0, 1}, a \in {"none", "comma"} :
          file = [ok |-> TRUE, c |-> [page |-> 1, name |-> n, args |-> a,
                   mode |-> IF HasFile(a) THEN "template" ELSE "stdin",
                   hidden |-> FALSE, kept |-> {}]]
    BY DEF SettingsInit
  <1>2. file \in [ok : BOOLEAN, c : Config] /\ Validates(file.c)
    BY <1>1 DEF Config, ArgLists, HasFile, Validates, SendValid
  <1>3. NoApp \in Apps /\ NoForm \in Forms /\ ~NoApp.up /\ ~NoForm.open
    BY DEF NoApp, Apps, NoForm, Forms, ArgLists, Modes
  <1>4. left \in 0..MaxConfigFaults
    BY SettingsAssumption DEF SettingsInit
  <1>5. tagging \in BOOLEAN /\ chosen \in {0, 1} /\ app = NoApp /\ form = NoForm
    BY DEF SettingsInit
  <1>6. SettingsTypes
    BY <1>2, <1>3, <1>4, <1>5 DEF SettingsTypes
  <1> QED
    BY <1>2, <1>3, <1>5, <1>6 DEF SettingsInv, FormOfThisRun, AppValid, TrustIsOnDisk

(* A write that fails changes no key, and uses up a fault. *)
LEMMA UnwrittenFaults ==
  ASSUME left \in 0..MaxConfigFaults, Unwritten
  PROVE  left' \in 0..MaxConfigFaults
  BY SettingsAssumption DEF Unwritten, WriteFails

LEMMA ProgramSteps ==
  ASSUME SettingsInv,
         \/ Launch \/ Quit \/ OpenSettings \/ Apply \/ CloseSettings \/ TagActivity \/ EditorWrites
  PROVE  SettingsInv'
  <1> USE DEF SettingsInv
  <1>1. CASE Launch
    <2>1. LaunchOptions(file.c) \in Apps /\ LaunchOptions(file.c).kept = file.c.kept
          /\ LaunchOptions(file.c).page # 0 /\ LaunchOptions(file.c).up
      BY <1>1 DEF LaunchOptions, Apps, SettingsTypes, Config, Validates, FromNotmuch, Modes
    <2> QED
      BY <1>1, <2>1 DEF Launch, SettingsTypes, FormOfThisRun, AppValid, TrustIsOnDisk
  <1>2. CASE Quit
    <2>1. NoApp \in Apps /\ NoForm \in Forms /\ ~NoApp.up /\ ~NoForm.open
      BY DEF NoApp, Apps, NoForm, Forms, ArgLists, Modes
    <2> QED
      BY <1>2, <2>1 DEF Quit, SettingsTypes, FormOfThisRun, AppValid, TrustIsOnDisk
  <1>3. CASE OpenSettings
    <2>1. form' \in Forms /\ form'.name = app.name
      BY <1>3 DEF OpenSettings, Seed, SettingsTypes, Apps, Forms
    <2> QED
      BY <1>3, <2>1 DEF OpenSettings, SettingsTypes, FormOfThisRun, AppValid, TrustIsOnDisk
  <1>4. CASE Apply
    <2>1. Applied \in Apps /\ Applied.kept = app.kept /\ Applied.up = app.up
          /\ Applied.page = form.page /\ Applied.name = app.name
      BY DEF Applied, SettingsTypes, Apps, Forms
    <2> QED
      BY <1>4, <2>1 DEF Apply, SettingsTypes, FormOfThisRun, AppValid, TrustIsOnDisk
  <1>5. CASE CloseSettings
    <2>1. NoForm \in Forms /\ ~NoForm.open
      BY DEF NoForm, Forms, ArgLists, Modes
    <2> QED
      BY <1>5, <2>1 DEF CloseSettings, SettingsTypes, FormOfThisRun, AppValid, TrustIsOnDisk
  <1>6. CASE TagActivity
    BY <1>6 DEF TagActivity, SettingsTypes, FormOfThisRun, AppValid, TrustIsOnDisk
  <1>7. CASE EditorWrites
    <2>1. file' \in [ok : BOOLEAN, c : Config] /\ file'.c = file.c
      BY <1>7 DEF EditorWrites, SettingsTypes
    <2>2. left' \in 0..MaxConfigFaults
      BY <1>7, SettingsAssumption DEF EditorWrites, SettingsTypes
    <2> QED
      BY <1>7, <2>1, <2>2 DEF EditorWrites, SettingsTypes, FormOfThisRun, AppValid, TrustIsOnDisk
  <1> QED
    BY <1>1, <1>2, <1>3, <1>4, <1>5, <1>6, <1>7

LEMMA EditStep ==
  ASSUME SettingsInv, EditForm
  PROVE  SettingsInv'
  <1>1. form' \in Forms /\ form'.open /\ form.open /\ form'.name \in {0, 1, app.name}
    BY DEF EditForm, SettingsInv, SettingsTypes, FormOfThisRun, Forms, ArgLists, Modes
  <1> QED
    BY <1>1 DEF EditForm, SettingsInv, SettingsTypes, FormOfThisRun, AppValid, TrustIsOnDisk

(* Save: every key of the form is set and validated, the lists are kept. *)
LEMMA SaveStep ==
  ASSUME SettingsInv, Save
  PROVE  SettingsInv'
  <1> USE DEF SettingsInv
  <1>a. Applied \in Apps /\ Applied.kept = app.kept /\ Applied.up = app.up
        /\ Applied.page = form.page /\ Applied.name = app.name
    BY DEF Applied, SettingsTypes, Apps, Forms
  <1>b. NoForm \in Forms /\ ~NoForm.open
    BY DEF NoForm, Forms, ArgLists, Modes
  <1>1. CASE Unwritten /\ UNCHANGED <<file, app, form, chosen>>
    <2>1. left' \in 0..MaxConfigFaults
      BY <1>1, UnwrittenFaults DEF SettingsTypes
    <2> QED
      BY <1>1, <2>1 DEF Save, SettingsTypes, FormOfThisRun, AppValid, TrustIsOnDisk
  <1>2. CASE /\ Writes(SettingsWith(file.c, form))
             /\ chosen' = IF form.name # app.name THEN form.name ELSE chosen
             /\ IF tagging THEN UNCHANGED <<app, form>>
                ELSE app' = Applied /\ form' = NoForm
    <2> DEFINE c == SettingsWith(file.c, form)
    <2>1. form.args \in ArgLists /\ Reparsed(form.args) \in ArgLists
      BY ReparsedArgs DEF SettingsTypes, Forms
    <2>0. file.c \in Config /\ form \in Forms
      BY DEF SettingsTypes
    <2>2. c.page = form.page /\ c.mode = form.mode /\ c.args = Reparsed(form.args)
          /\ c.kept = file.c.kept /\ c \in Config
      BY <2>0, <2>1 DEF SettingsWith, Forms, Config, Modes
    <2>3. Validates(c)
      BY <2>2 DEF Save, AcceptsForm, Validates
    <2>4. file' \in [ok : BOOLEAN, c : Config] /\ file'.c = c /\ left' = left
      BY <1>2, <2>2 DEF Writes, SettingsTypes
    <2>5. chosen' \in {0, 1}
      BY <1>2 DEF Save, SettingsTypes, FormOfThisRun
    <2>6. SettingsTypes'
      BY <1>a, <1>b, <1>2, <2>4, <2>5 DEF Save, SettingsTypes
    <2>7. FormOfThisRun' /\ AppValid'
      BY <1>a, <1>b, <1>2 DEF Save, AcceptsForm, FormOfThisRun, AppValid
    <2>8. TrustIsOnDisk'
      BY <1>a, <1>2, <2>2, <2>4 DEF TrustIsOnDisk
    <2> QED
      BY <2>3, <2>4, <2>6, <2>7, <2>8
  <1> QED
    BY <1>1, <1>2 DEF Save

(* The writers of one list or one key. *)
LEMMA OtherWriters ==
  ASSUME SettingsInv, Remember("trusted") \/ ChangeSearches \/ HideTag \/ SaveBasic
  PROVE  SettingsInv'
  <1> USE DEF SettingsInv
  <1>c. file.c \in Config /\ file.c.kept \subseteq Lists /\ app.kept \subseteq Lists
    BY DEF SettingsTypes, Config, Apps
  <1>l. ASSUME NEW l \in Lists, NEW has \in BOOLEAN
        PROVE  /\ ListWith(file.c, l, has) \in Config /\ Validates(ListWith(file.c, l, has))
               /\ ListWith(file.c, l, has).kept
                    = IF has THEN file.c.kept \cup {l} ELSE file.c.kept \ {l}
    BY <1>c DEF ListWith, Config, Validates
  <1>w. ASSUME NEW c \in Config, Writes(c)
        PROVE  file' \in [ok : BOOLEAN, c : Config] /\ file'.c = c /\ left' = left
    BY <1>w DEF Writes, SettingsTypes
  <1>u. Unwritten => left' \in 0..MaxConfigFaults
    BY UnwrittenFaults DEF SettingsTypes
  <1>1. CASE Remember("trusted")
    <2> DEFINE has == "trusted" \notin app.kept
               kept == IF has THEN app.kept \cup {"trusted"} ELSE app.kept \ {"trusted"}
    <2>1. CASE Writes(ListWith(file.c, "trusted", has)) /\ app' = [app EXCEPT !.kept = kept]
      <3>1. file' \in [ok : BOOLEAN, c : Config] /\ Validates(file'.c) /\ left' = left
            /\ file'.c.kept = IF has THEN file.c.kept \cup {"trusted"} ELSE file.c.kept \ {"trusted"}
        BY <2>1, <1>l, <1>w DEF Lists
      <3>2. app' \in Apps /\ app'.kept = kept /\ app'.up = app.up /\ app'.page = app.page
            /\ app'.name = app.name
        BY <2>1, <1>c DEF SettingsTypes, Apps, Lists
      <3> QED
        BY <1>1, <3>1, <3>2 DEF Remember, SettingsTypes, FormOfThisRun, AppValid, TrustIsOnDisk
    <2>2. CASE Unwritten /\ UNCHANGED <<file, app>>
      BY <1>1, <1>u, <2>2 DEF Remember, SettingsTypes, FormOfThisRun, AppValid, TrustIsOnDisk
    <2> QED
      BY <1>1, <2>1, <2>2 DEF Remember
  <1>2. CASE ChangeSearches
    <2> DEFINE has == "searches" \notin app.kept
    <2>1. app' \in Apps /\ ("trusted" \in app'.kept <=> "trusted" \in app.kept) /\ app'.up = app.up
          /\ app'.page = app.page /\ app'.name = app.name
      BY <1>2, <1>c DEF ChangeSearches, SettingsTypes, Apps, Lists
    <2>2. CASE Writes(ListWith(file.c, "searches", has))
      <3>1. file' \in [ok : BOOLEAN, c : Config] /\ Validates(file'.c) /\ left' = left
            /\ ("trusted" \in file'.c.kept <=> "trusted" \in file.c.kept)
        BY <2>2, <1>l, <1>w DEF Lists
      <3> QED
        BY <1>2, <2>1, <3>1 DEF ChangeSearches, SettingsTypes, FormOfThisRun, AppValid, TrustIsOnDisk
    <2>3. CASE Unwritten /\ UNCHANGED file
      BY <1>2, <1>u, <2>1, <2>3 DEF ChangeSearches, SettingsTypes, FormOfThisRun, AppValid, TrustIsOnDisk
    <2> QED
      BY <1>2, <2>2, <2>3 DEF ChangeSearches
  <1>3. CASE HideTag
    <2>1. app' \in Apps /\ app'.kept = app.kept /\ app'.up = app.up
          /\ app'.page = app.page /\ app'.name = app.name
      BY <1>3 DEF HideTag, SettingsTypes, Apps
    <2>2. [file.c EXCEPT !.hidden = TRUE] \in Config /\ Validates([file.c EXCEPT !.hidden = TRUE])
          /\ [file.c EXCEPT !.hidden = TRUE].kept = file.c.kept
      BY <1>c DEF Config, Validates
    <2>3. CASE Writes([file.c EXCEPT !.hidden = TRUE])
      <3>1. file' \in [ok : BOOLEAN, c : Config] /\ Validates(file'.c) /\ left' = left
            /\ file'.c.kept = file.c.kept
        BY <2>2, <2>3, <1>w
      <3> QED
        BY <1>3, <2>1, <3>1 DEF HideTag, SettingsTypes, FormOfThisRun, AppValid, TrustIsOnDisk
    <2>4. CASE Unwritten /\ UNCHANGED file
      BY <1>3, <1>u, <2>1, <2>4 DEF HideTag, SettingsTypes, FormOfThisRun, AppValid, TrustIsOnDisk
    <2> QED
      BY <1>3, <2>3, <2>4 DEF HideTag
  <1>4. CASE SaveBasic
    <2> DEFINE c == [file.c EXCEPT !.page = app.page]
    <2>1. c \in Config /\ Validates(c) /\ c.kept = file.c.kept
      BY <1>4, <1>c DEF SaveBasic, Config, Validates, SettingsTypes, Apps, AppValid
    <2>2. CASE Writes(c)
      <3>1. file' \in [ok : BOOLEAN, c : Config] /\ Validates(file'.c) /\ left' = left
            /\ file'.c.kept = file.c.kept
        BY <2>1, <2>2, <1>w
      <3> QED
        BY <1>4, <3>1 DEF SaveBasic, SettingsTypes, FormOfThisRun, AppValid, TrustIsOnDisk
    <2>3. CASE Unwritten /\ UNCHANGED file
      BY <1>4, <1>u, <2>3 DEF SaveBasic, SettingsTypes, FormOfThisRun, AppValid, TrustIsOnDisk
    <2> QED
      BY <1>4, <2>2, <2>3 DEF SaveBasic
  <1> QED
    BY <1>1, <1>2, <1>3, <1>4

LEMMA SettingsInvariance == SettingsSpec => []SettingsInv
  <1>1. ASSUME SettingsInv, [SettingsNext]_settingsVars PROVE SettingsInv'
    <2>1. CASE UNCHANGED settingsVars
      BY <1>1, <2>1 DEF settingsVars, SettingsInv, SettingsTypes, FormOfThisRun, AppValid, TrustIsOnDisk
    <2>2. CASE SettingsNext
      BY <1>1, <2>2, ProgramSteps, EditStep, SaveStep, OtherWriters DEF SettingsNext
    <2> QED
      BY <1>1, <2>1, <2>2
  <1> QED
    BY <1>1, SettingsInitInv, PTL DEF SettingsSpec

(* Type correctness of the configuration, the running program and the dialog. *)
THEOREM SettingsTypeCorrect == SettingsSpec => []SettingsTypeOK
  <1>1. SettingsInv => SettingsTypeOK
    BY DEF SettingsInv, SettingsTypes, FormOfThisRun, Apps, SettingsTypeOK, FromNotmuch
  <1> QED
    BY <1>1, SettingsInvariance, PTL

(***************************************************************************)
(* AppConfig::validate: no sequence of dialogs, harness saves and lists    *)
(* leaves a file that the next launch refuses.                             *)
(***************************************************************************)
THEOREM ConfigStaysLoadable == SettingsSpec => []ConfigLoads
  <1>1. SettingsInv => ConfigLoads
    BY DEF SettingsInv, ConfigLoads
  <1> QED
    BY <1>1, SettingsInvariance, PTL

(***************************************************************************)
(* apply_sender_image_trust: the trusted senders of the running program    *)
(* are those of the file, through failing writes and all other writers.    *)
(***************************************************************************)
THEOREM TrustStaysOnDisk == SettingsSpec => []TrustIsOnDisk
  <1>1. SettingsInv => TrustIsOnDisk
    BY DEF SettingsInv
  <1> QED
    BY <1>1, SettingsInvariance, PTL

-----------------------------------------------------------------------------
(***************************************************************************)
(* The views.  What has to be known of one view: the document its WebView  *)
(* holds is one that renders; its check box shows the trust when it has    *)
(* one; and it is Permitted.  While it shows text the permission must be   *)
(* the global setting, since refresh_sender_image_policy passes such a     *)
(* view by: an HTML page on screen is always the active view.              *)
(***************************************************************************)
HoldsHtml(v) ==
  /\ v \in View
  /\ v.doc # NoMail => v.doc[2] = "html"
  /\ v.stack = "html" => v.kind = "html"

Permitted(v, pol) ==
  Retained(v) /\ v.doc = v.sel /\ ~v.behind /\ v.stack # "compose" /\ v.load
    => /\ Allows(pol, v.doc) \/ v.once
       /\ v.stack = "text" => pol.remote

Checked(v, pol) == HasHtml(v.sel) => v.check = Trusted(pol, v.sel)

GoodView(v, pol) == HoldsHtml(v) /\ Checked(v, pol) /\ Permitted(v, pol)

Policies == [remote: BOOLEAN, trusted: SUBSET Senders]
Preferences == [mail: [Mail -> Kinds \cup {"none"}], sender: [Senders -> Kinds \cup {"none"}]]

ViewInv ==
  /\ GoodView(main, policy)
  /\ windows \in Seq(View) /\ Len(windows) <= WindowLimit
  /\ \A i \in DOMAIN windows : GoodView(windows[i], policy)
  /\ policy \in Policies /\ prefs \in Preferences
  /\ activity \in {"idle", "tags", "send"} /\ choices \in 0..MaxChoices

LEMMA NoMailApart == NoMail \notin Mail /\ \A m \in Mail : From(m) \in Senders
  BY ViewAssumption DEF NoMail, From, Senders

LEMMA ButtonsGood ==
  ASSUME NEW v, HoldsHtml(v), NEW pol \in Policies, Permitted(v, pol)
  PROVE  GoodView(Buttons(v, pol), pol)
  <1> DEFINE w == Buttons(v, pol)
  <1>1. Trusted(pol, v.sel) \in BOOLEAN /\ v \in View
    BY DEF Trusted, HoldsHtml
  <1>2. w \in View /\ w.check = Trusted(pol, v.sel) /\ w.sel = v.sel /\ w.doc = v.doc
        /\ w.load = v.load /\ w.once = v.once /\ w.stack = v.stack /\ w.ready = v.ready
        /\ w.behind = v.behind /\ w.kind = v.kind
    BY <1>1 DEF Buttons, View
  <1> QED
    BY <1>2 DEF GoodView, HoldsHtml, Checked, Permitted, Retained

(* A page that is shown anew leaves nothing of an earlier permission. *)
LEMMA HtmlGood ==
  ASSUME NEW v, HoldsHtml(v), NEW pol \in Policies, NEW once \in BOOLEAN
  PROVE  GoodView(ShownHtml(v, pol, once), pol)
  <1>1. CASE Retained(v) /\ Renders(v.sel, "html")
    <2> DEFINE w == [v EXCEPT !.load = Allows(pol, v.sel) \/ once, !.once = once, !.doc = v.sel,
                              !.kind = "html", !.stack = "html", !.behind = FALSE]
    <2>1. w \in View /\ w.doc = v.sel /\ w.sel = v.sel /\ w.stack = "html" /\ w.kind = "html"
          /\ w.load = (Allows(pol, v.sel) \/ once) /\ w.once = once
      BY <1>1 DEF HoldsHtml, View, Kinds, Allows, Trusted, Policies
    <2>2. HoldsHtml(w) /\ Permitted(w, pol)
      BY <1>1, <2>1 DEF HoldsHtml, Permitted, Renders
    <2> QED
      BY <1>1, <2>2, ButtonsGood DEF ShownHtml
  <1>2. CASE ~(Retained(v) /\ Renders(v.sel, "html"))
    <2>1. Permitted(v, pol)
      BY <1>2 DEF HoldsHtml, Permitted, Retained, Renders
    <2> QED
      BY <1>2, <2>1, ButtonsGood DEF ShownHtml
  <1> QED
    BY <1>1, <1>2

LEMMA TextGood ==
  ASSUME NEW v, NEW pol \in Policies, GoodView(v, pol), NEW kind \in {"text", "source"}
  PROVE  GoodView(TextPage(v, pol, kind), pol)
  <1>1. CASE Retained(v) /\ Renders(v.sel, kind)
    <2> DEFINE w == [ImagesStopped(v) EXCEPT !.kind = kind, !.stack = "text", !.behind = FALSE]
    <2>1. w \in View /\ w.doc = v.doc /\ w.load = FALSE /\ w.stack = "text"
      BY DEF GoodView, HoldsHtml, View, Kinds, ImagesStopped
    <2>2. HoldsHtml(w) /\ Permitted(w, pol)
      BY <2>1 DEF GoodView, HoldsHtml, Permitted
    <2> QED
      BY <1>1, <2>2, ButtonsGood DEF TextPage
  <1>2. CASE ~(Retained(v) /\ Renders(v.sel, kind))
    BY <1>2 DEF TextPage
  <1> QED
    BY <1>1, <1>2

LEMMA ShownGood ==
  ASSUME NEW v, NEW pol \in Policies, GoodView(v, pol), NEW kind \in Kinds
  PROVE  GoodView(Shown(v, pol, kind), pol)
  <1>1. CASE kind = "html"
    BY <1>1, HtmlGood DEF Shown, GoodView
  <1>2. CASE kind # "html"
    BY <1>2, TextGood DEF Shown, Kinds
  <1> QED
    BY <1>1, <1>2

LEMMA PreferredKind ==
  ASSUME prefs \in Preferences, NEW m \in Mail, NEW html \in BOOLEAN
  PROVE  Preferred(m, html) \in Kinds
  <1>1. prefs.mail[m] \in Kinds \cup {"none"} /\ prefs.sender[From(m)] \in Kinds \cup {"none"}
    BY NoMailApart DEF Preferences
  <1> QED
    BY <1>1 DEF Preferred, Kinds

LEMMA PreferredGood ==
  ASSUME NEW v, v.sel \in Mail, NEW pol \in Policies, GoodView(v, pol), prefs \in Preferences
  PROVE  GoodView(ShownPreferred(v, pol), pol)
  <1>1. Preferred(v.sel, Retained(v) /\ HasHtml(v.sel)) \in Kinds
    <2>1. (Retained(v) /\ HasHtml(v.sel)) \in BOOLEAN
      BY DEF GoodView, HoldsHtml, View, Retained, HasHtml
    <2> QED
      BY <2>1, PreferredKind
  <1> QED
    BY <1>1, ShownGood DEF ShownPreferred

(* A window turns back only without an HTML part, when nothing is loaded   *)
(* that belongs to its message.                                            *)
LEMMA WindowHtmlGood ==
  ASSUME NEW v, HoldsHtml(v), NEW pol \in Policies
  PROVE  GoodView(WindowShown(v, pol, "html"), pol)
  <1>1. CASE HasHtml(v.sel)
    BY <1>1, HtmlGood DEF WindowShown
  <1>2. CASE ~HasHtml(v.sel)
    <2>1. Permitted(v, pol)
      BY <1>2 DEF HoldsHtml, Permitted, Retained, HasHtml
    <2> QED
      BY <1>2, <2>1 DEF WindowShown, GoodView, Checked
  <1> QED
    BY <1>1, <1>2

LEMMA TextPermitted ==
  ASSUME NEW v, HoldsHtml(v), NEW pol \in Policies, NEW kind \in {"text", "source"}
  PROVE  GoodView(Buttons(TextPage(v, pol, kind), pol), pol)
  <1>1. CASE Retained(v) /\ Renders(v.sel, kind)
    <2> DEFINE w == [ImagesStopped(v) EXCEPT !.kind = kind, !.stack = "text", !.behind = FALSE]
    <2>1. w \in View /\ w.doc = v.doc /\ w.load = FALSE /\ w.stack = "text"
      BY DEF HoldsHtml, View, Kinds, ImagesStopped
    <2>2. HoldsHtml(w) /\ Permitted(w, pol)
      BY <2>1 DEF HoldsHtml, Permitted
    <2>3. GoodView(TextPage(v, pol, kind), pol)
      BY <1>1, <2>2, ButtonsGood DEF TextPage
    <2> QED
      BY <2>3, ButtonsGood DEF GoodView
  <1>2. CASE ~(Retained(v) /\ Renders(v.sel, kind))
    <2>1. Permitted(v, pol)
      BY <1>2 DEF HoldsHtml, Permitted, Retained, Renders
    <2> QED
      BY <1>2, <2>1, ButtonsGood DEF TextPage
  <1> QED
    BY <1>1, <1>2

LEMMA WindowShownGood ==
  ASSUME NEW v, HoldsHtml(v), NEW pol \in Policies, NEW kind \in Kinds
  PROVE  GoodView(WindowShown(v, pol, kind), pol)
  <1>1. CASE kind = "html"
    BY <1>1, WindowHtmlGood
  <1>2. CASE kind # "html"
    BY <1>2, TextPermitted DEF WindowShown, Kinds
  <1> QED
    BY <1>1, <1>2

LEMMA WindowPreferredGood ==
  ASSUME NEW v, HoldsHtml(v), v.sel \in Mail, NEW pol \in Policies, prefs \in Preferences
  PROVE  GoodView(WindowPreferred(v, pol), pol)
  <1>1. HasHtml(v.sel) \in BOOLEAN
    BY DEF HasHtml
  <1> QED
    BY <1>1, PreferredKind, WindowShownGood DEF WindowPreferred

LEMMA StoppedHolds ==
  ASSUME NEW v, HoldsHtml(v)
  PROVE  /\ HoldsHtml(ImagesStopped(v)) /\ ~ImagesStopped(v).load
         /\ ImagesStopped(v).sel = v.sel /\ ImagesStopped(v).stack = v.stack
  BY DEF HoldsHtml, View, ImagesStopped

-----------------------------------------------------------------------------
(* Changes of the policy: every view follows. *)
LEMMA SenderGood ==
  ASSUME NEW v, NEW old \in Policies, GoodView(v, old), NEW sender \in Senders, NEW enabled \in BOOLEAN,
         NEW pol, pol = [old EXCEPT !.trusted = IF enabled THEN @ \cup {sender} ELSE @ \ {sender}]
  PROVE  GoodView(SenderRefreshed(v, pol, sender), pol)
  <1>p. pol \in Policies /\ pol.remote = old.remote
        /\ pol.trusted = IF enabled THEN old.trusted \cup {sender} ELSE old.trusted \ {sender}
    BY DEF Policies
  <1> DEFINE w == [v EXCEPT !.asked = FALSE]
  <1>w. HoldsHtml(w) /\ w.sel = v.sel /\ w.doc = v.doc /\ w.stack = v.stack /\ w.load = v.load
        /\ w.once = v.once /\ w.ready = v.ready /\ w.behind = v.behind
    BY DEF GoodView, HoldsHtml, View
  <1>1. CASE From(v.sel) # sender
    BY <1>1, <1>p DEF SenderRefreshed, GoodView, Checked, Permitted, Allows, Trusted
  <1>2. CASE From(v.sel) = sender /\ v.kind = "html"
    <2>1. HoldsHtml(ImagesStopped(w))
      BY <1>w, StoppedHolds
    <2> QED
      BY <1>2, <1>p, <2>1, WindowHtmlGood DEF SenderRefreshed
  <1>3. CASE From(v.sel) = sender /\ v.kind # "html"
    <2>1. v.stack \in {"text", "compose"}
      BY <1>3 DEF GoodView, HoldsHtml, View
    <2>2. Permitted(w, pol)
      BY <1>3, <1>p, <1>w, <2>1 DEF GoodView, Permitted, Retained, Allows
    <2> QED
      BY <1>3, <1>p, <1>w, <2>2, ButtonsGood DEF SenderRefreshed
  <1> QED
    BY <1>1, <1>2, <1>3

LEMMA RemoteGood ==
  ASSUME NEW v, NEW old \in Policies, GoodView(v, old), NEW pol, pol = [old EXCEPT !.remote = ~@]
  PROVE  GoodView(RemoteRefreshed(v, pol), pol)
  <1>p. pol \in Policies /\ pol.trusted = old.trusted /\ pol.remote = ~old.remote
    BY DEF Policies
  <1> DEFINE w == [v EXCEPT !.asked = FALSE]
             stopped == IF w.kind = "html" \/ ~pol.remote THEN ImagesStopped(w) ELSE w
  <1>w. HoldsHtml(w) /\ w.kind = v.kind
    BY DEF GoodView, HoldsHtml, View
  <1>s. HoldsHtml(stopped) /\ (stopped.load => pol.remote /\ stopped = w)
    <2>1. CASE w.kind = "html" \/ ~pol.remote
      BY <2>1, <1>w, StoppedHolds
    <2>2. CASE ~(w.kind = "html" \/ ~pol.remote)
      BY <2>2, <1>w, <1>p DEF Policies
    <2> QED
      BY <2>1, <2>2
  <1>1. CASE w.kind = "html"
    BY <1>1, <1>p, <1>s, WindowHtmlGood DEF RemoteRefreshed
  <1>2. CASE w.kind # "html"
    <2>1. Permitted(stopped, pol)
      BY <1>s DEF Permitted, Allows
    <2> QED
      BY <1>2, <1>p, <1>s, <2>1, ButtonsGood DEF RemoteRefreshed
  <1> QED
    BY <1>1, <1>2

LEMMA MainTrustsGood ==
  ASSUME ViewInv, NEW sender \in Senders, NEW enabled \in BOOLEAN,
         NEW pol, pol = [policy EXCEPT !.trusted = IF enabled THEN @ \cup {sender} ELSE @ \ {sender}]
  PROVE  GoodView(MainTrusts(pol, sender, enabled), pol)
  <1>p. pol \in Policies /\ pol.remote = policy.remote
        /\ pol.trusted = IF enabled THEN policy.trusted \cup {sender} ELSE policy.trusted \ {sender}
    BY DEF ViewInv, Policies
  <1> DEFINE matches == main.sel # NoMail /\ From(main.sel) = sender
             stopped == IF ~enabled /\ matches THEN ImagesStopped(main) ELSE main
  <1>h. HoldsHtml(main) /\ Permitted(main, policy)
    BY DEF ViewInv, GoodView
  <1>s. HoldsHtml(stopped)
    BY <1>h, StoppedHolds
  <1>t. Permitted(stopped, pol)
    <2>1. CASE ~enabled /\ matches
      BY <2>1, <1>h, StoppedHolds DEF Permitted
    <2>2. CASE ~(~enabled /\ matches)
      BY <2>2, <1>h, <1>p DEF Permitted, Allows, Trusted, Retained
    <2> QED
      BY <2>1, <2>2
  <1>1. CASE matches /\ main.stack = "html" /\ Retained(main) /\ HasHtml(main.sel)
    BY <1>1, <1>p, <1>s, HtmlGood DEF MainTrusts
  <1>2. CASE ~(matches /\ main.stack = "html" /\ Retained(main) /\ HasHtml(main.sel))
    BY <1>2, <1>p, <1>s, <1>t, ButtonsGood DEF MainTrusts
  <1> QED
    BY <1>1, <1>2

-----------------------------------------------------------------------------
(* Steps. *)
LEMMA ViewInitInv == ViewInit => ViewInv
  <1> SUFFICES ASSUME ViewInit PROVE ViewInv
    OBVIOUS
  <1>1. HoldsHtml(Blank) /\ Blank.sel = NoMail /\ Blank.load = FALSE /\ Blank.check = FALSE
    BY DEF Blank, HoldsHtml, View, Kinds
  <1>2. policy \in Policies /\ policy.trusted = {}
    BY DEF ViewInit, Policies
  <1>a. Trusted(policy, NoMail) = FALSE
    BY <1>2 DEF Trusted
  <1>3. GoodView(main, policy)
    BY <1>1, <1>a DEF ViewInit, GoodView, Checked, Permitted
  <1>4. windows \in Seq(View) /\ Len(windows) = 0 /\ DOMAIN windows = {}
    BY DEF ViewInit
  <1>5. prefs \in Preferences
    BY DEF ViewInit, Preferences
  <1>6. choices \in 0..MaxChoices
    BY ViewAssumption DEF ViewInit
  <1> QED
    BY <1>2, <1>3, <1>4, <1>5, <1>6, ViewAssumption DEF ViewInit, ViewInv

LEMMA RememberedTypes ==
  ASSUME prefs \in Preferences, choices \in 0..MaxChoices, NEW m \in Mail, NEW kind \in Kinds, Remembers(m, kind)
  PROVE  prefs' \in Preferences /\ choices' \in 0..MaxChoices
  <1>1. choices' \in 0..MaxChoices
    BY ViewAssumption DEF Remembers
  <1>2. [prefs EXCEPT !.mail[m] = kind] \in Preferences
    BY DEF Preferences, Kinds
  <1> QED
    BY <1>1, <1>2 DEF Remembers

LEMMA MappedViews ==
  ASSUME windows \in Seq(View), windows' = [i \in DOMAIN windows |-> windows'[i]],
         \A i \in DOMAIN windows : windows'[i] \in View
  PROVE  windows' \in Seq(View) /\ Len(windows') = Len(windows) /\ DOMAIN windows' = DOMAIN windows
  <1>1. DOMAIN windows = 1..Len(windows) /\ Len(windows) \in Nat
    OBVIOUS
  <1>2. windows' \in [1..Len(windows) -> View]
    BY <1>1
  <1> QED
    BY <1>1, <1>2

(* A step of the message pane alone. *)
LEMMA MainStep ==
  ASSUME ViewInv, NEW v, GoodView(v, policy), MainIs(v), prefs' \in Preferences, choices' \in 0..MaxChoices
  PROVE  ViewInv'
  BY DEF ViewInv, MainIs

LEMMA MainOnlyStep ==
  ASSUME ViewInv, NEW v, GoodView(v, policy), MainOnly(v)
  PROVE  ViewInv'
  BY DEF ViewInv, MainIs, MainOnly

(* A step of one window alone. *)
LEMMA WindowStep ==
  ASSUME ViewInv, NEW i \in DOMAIN windows, NEW v, GoodView(v, policy), WindowIs(i, v),
         prefs' \in Preferences, choices' \in 0..MaxChoices
  PROVE  ViewInv'
  <1>1. v \in View
    BY DEF GoodView, HoldsHtml
  <1>2. windows' \in Seq(View) /\ Len(windows') = Len(windows) /\ DOMAIN windows' = DOMAIN windows
        /\ \A j \in DOMAIN windows : windows'[j] = IF j = i THEN v ELSE windows[j]
    BY <1>1 DEF ViewInv, WindowIs
  <1> QED
    BY <1>2 DEF ViewInv, WindowIs

LEMMA WindowOnlyStep ==
  ASSUME ViewInv, NEW i \in DOMAIN windows, NEW v, GoodView(v, policy), WindowOnly(i, v)
  PROVE  ViewInv'
  <1>1. prefs' \in Preferences /\ choices' \in 0..MaxChoices /\ WindowIs(i, v)
    BY DEF ViewInv, WindowOnly
  <1> QED
    BY <1>1, WindowStep

LEMMA SenderDefaultStep ==
  ASSUME ViewInv, NEW v, HoldsHtml(v), SenderDefault(v)
  PROVE  ViewInv'
  <1>1. choices' \in 0..MaxChoices
    BY ViewAssumption DEF ViewInv, SenderDefault
  <1>2. prefs' \in Preferences
    <2>1. v.kind \in Kinds
      BY DEF HoldsHtml, View
    <2> QED
      BY <2>1 DEF ViewInv, SenderDefault, Preferences
  <1> QED
    BY <1>1, <1>2 DEF ViewInv, SenderDefault

LEMMA ToggleStep ==
  ASSUME ViewInv, NEW v, HoldsHtml(v), Toggle(v)
  PROVE  ViewInv'
  <1>s. From(v.sel) \in Senders /\ (~v.check) \in BOOLEAN
    BY NoMailApart DEF Toggle, HasHtml, HoldsHtml, View, NoMail
  <1>1. CASE ApplyTrust(From(v.sel), ~v.check)
    <2> DEFINE sender == From(v.sel)
               enabled == ~v.check
               pol == [policy EXCEPT !.trusted = IF enabled THEN @ \cup {sender} ELSE @ \ {sender}]
    <2>0. policy \in Policies /\ pol \in Policies
      BY <1>s DEF ViewInv, Policies
    <2>1. policy' = pol /\ main' = MainTrusts(pol, sender, enabled)
          /\ windows' = [i \in DOMAIN windows |-> SenderRefreshed(windows[i], pol, sender)]
      BY <1>1 DEF ApplyTrust
    <2>2. GoodView(main', policy')
      BY <1>s, <2>1, MainTrustsGood
    <2>3. \A i \in DOMAIN windows : GoodView(SenderRefreshed(windows[i], pol, sender), pol)
      BY <1>s, <2>0, SenderGood DEF ViewInv
    <2>w. windows' = [i \in DOMAIN windows |-> windows'[i]]
          /\ \A i \in DOMAIN windows : windows'[i] = SenderRefreshed(windows[i], pol, sender)
      BY <2>1
    <2>v. \A i \in DOMAIN windows : windows'[i] \in View
      BY <2>3, <2>w DEF GoodView, HoldsHtml
    <2>4. windows' \in Seq(View) /\ Len(windows') = Len(windows) /\ DOMAIN windows' = DOMAIN windows
      BY <2>w, <2>v, MappedViews DEF ViewInv
    <2>5. \A i \in DOMAIN windows' : GoodView(windows'[i], policy')
      BY <2>1, <2>3, <2>4
    <2> QED
      BY <2>0, <2>1, <2>2, <2>4, <2>5 DEF ViewInv, Toggle
  <1>2. CASE UNCHANGED <<main, windows, policy>>
    BY <1>2 DEF ViewInv, Toggle
  <1> QED
    BY <1>1, <1>2 DEF Toggle

LEMMA SetRemoteStep ==
  ASSUME ViewInv, SetRemote
  PROVE  ViewInv'
  <1> DEFINE pol == [policy EXCEPT !.remote = ~@]
  <1>0. policy \in Policies /\ pol \in Policies /\ pol.trusted = policy.trusted /\ pol.remote \in BOOLEAN
    BY DEF ViewInv, Policies
  <1>1. policy' = pol /\ windows' = [i \in DOMAIN windows |-> RemoteRefreshed(windows[i], pol)]
    BY DEF SetRemote
  <1>2. GoodView(main', pol)
    <2>1. CASE main.stack = "html"
      BY <1>0, <2>1, HtmlGood DEF SetRemote, ViewInv, GoodView
    <2>2. CASE main.stack # "html"
      <3> DEFINE v == [main EXCEPT !.load = pol.remote, !.once = FALSE]
      <3>1. main' = Buttons(v, pol)
        BY <2>2 DEF SetRemote
      <3>2. HoldsHtml(main)
        BY DEF ViewInv, GoodView
      <3>3. HoldsHtml(v) /\ v.load = pol.remote
        BY <1>0, <3>2 DEF HoldsHtml, View
      <3>4. Permitted(v, pol)
        BY <3>3 DEF Permitted, Allows
      <3> QED
        BY <1>0, <3>1, <3>3, <3>4, ButtonsGood
    <2> QED
      BY <2>1, <2>2
  <1>3. \A i \in DOMAIN windows : GoodView(RemoteRefreshed(windows[i], pol), pol)
    BY <1>0, RemoteGood DEF ViewInv
  <1>w. windows' = [i \in DOMAIN windows |-> windows'[i]]
        /\ \A i \in DOMAIN windows : windows'[i] = RemoteRefreshed(windows[i], pol)
    BY <1>1
  <1>v. \A i \in DOMAIN windows : windows'[i] \in View
    BY <1>3, <1>w DEF GoodView, HoldsHtml
  <1>4. windows' \in Seq(View) /\ Len(windows') = Len(windows) /\ DOMAIN windows' = DOMAIN windows
    BY <1>w, <1>v, MappedViews DEF ViewInv
  <1>5. \A i \in DOMAIN windows' : GoodView(windows'[i], policy')
    BY <1>1, <1>3, <1>4
  <1> QED
    BY <1>0, <1>1, <1>2, <1>4, <1>5 DEF ViewInv, SetRemote

(* The page of the message pane is behind its selection. *)
LEMMA BehindGood ==
  ASSUME ViewInv, NEW m \in Mail, NEW ready \in BOOLEAN
  PROVE  LET v == Buttons([main EXCEPT !.sel = m, !.ready = ready, !.behind = TRUE], policy)
         IN  GoodView(v, policy) /\ v.sel = m
  <1> DEFINE w == [main EXCEPT !.sel = m, !.ready = ready, !.behind = TRUE]
  <1>1. main \in View /\ HoldsHtml(main) /\ policy \in Policies
    BY DEF ViewInv, GoodView, HoldsHtml
  <1>2. w \in View /\ w.sel = m /\ w.behind /\ w.doc = main.doc /\ w.stack = main.stack /\ w.kind = main.kind
    BY <1>1 DEF View
  <1>3. HoldsHtml(w) /\ Permitted(w, policy)
    BY <1>1, <1>2 DEF HoldsHtml, Permitted
  <1>4. Buttons(w, policy).sel = m
    BY <1>2 DEF Buttons, View
  <1> QED
    BY <1>1, <1>3, <1>4, ButtonsGood

LEMMA MainSteps ==
  ASSUME ViewInv,
         \/ \E m \in Mail : MainSelects(m) \/ MainShows(m)
         \/ MainRefreshed \/ MainMenuUpdated
         \/ \E kind \in Kinds : MainChoose(kind)
         \/ \E kind \in {"text", "html"} : MainShow(kind)
         \/ MainOnce \/ MainCompose \/ MainComposeClosed
  PROVE  ViewInv'
  <1>h. GoodView(main, policy) /\ HoldsHtml(main) /\ main \in View /\ policy \in Policies /\ prefs \in Preferences
    BY DEF ViewInv, GoodView, HoldsHtml
  <1>1. ASSUME NEW m \in Mail, MainSelects(m) PROVE ViewInv'
    <2>1. PICK ready \in {main.ready, TRUE} :
            MainOnly(Buttons([main EXCEPT !.sel = m, !.ready = ready, !.behind = TRUE], policy))
      BY <1>1 DEF MainSelects
    <2>2. ready \in BOOLEAN
      BY <1>h DEF View
    <2> QED
      BY <2>1, <2>2, BehindGood, MainOnlyStep
  <1>8. ASSUME NEW m \in Mail, MainShows(m) PROVE ViewInv'
    <2> DEFINE v(ready) == Buttons([main EXCEPT !.sel = m, !.ready = ready, !.behind = TRUE], policy)
    <2>1. PICK ready \in {main.ready, main.ready /\ m = main.sel} :
            MainOnly(v(ready)) \/ MainOnly(ShownPreferred(v(ready), policy))
      BY <1>8 DEF MainShows
    <2>2. ready \in BOOLEAN
      BY <1>h DEF View
    <2>3. GoodView(v(ready), policy) /\ v(ready).sel \in Mail
      BY <2>2, BehindGood
    <2> HIDE DEF v
    <2>4. GoodView(ShownPreferred(v(ready), policy), policy)
      BY <1>h, <2>3, PreferredGood
    <2> QED
      BY <2>1, <2>3, <2>4, MainOnlyStep
  <1>2. CASE MainRefreshed
    <2>1. ASSUME NEW sel \in {main.sel, NoMail}
          PROVE  GoodView([main EXCEPT !.ready = FALSE, !.sel = sel], policy)
      <3> DEFINE w == [main EXCEPT !.ready = FALSE, !.sel = sel]
      <3>1. w \in View /\ ~w.ready /\ w.sel = sel /\ w.check = main.check /\ HoldsHtml(w)
        BY <1>h DEF HoldsHtml, View
      <3>2. Permitted(w, policy)
        BY <3>1 DEF Permitted, Retained
      <3>3. Checked(w, policy)
        BY <1>h, <3>1 DEF GoodView, Checked, HasHtml, NoMail
      <3> QED
        BY <3>1, <3>2, <3>3 DEF GoodView
    <2> QED
      BY <1>2, <2>1, MainOnlyStep DEF MainRefreshed
  <1>9. CASE MainMenuUpdated
    <2>1. GoodView(Buttons(main, policy), policy)
      BY <1>h, ButtonsGood DEF GoodView
    <2> QED
      BY <1>9, <2>1, MainOnlyStep DEF MainMenuUpdated
  <1>3. ASSUME NEW kind \in Kinds, MainChoose(kind) PROVE ViewInv'
    <2>1. GoodView(Shown(main, policy, kind), policy) /\ MainIs(Shown(main, policy, kind))
      BY <1>h, <1>3, ShownGood DEF MainChoose
    <2>2. main.sel \in Mail
      BY <1>h, <1>3 DEF MainChoose, View
    <2>3. prefs' \in Preferences /\ choices' \in 0..MaxChoices
      BY <1>3, <2>2, RememberedTypes DEF MainChoose, ViewInv
    <2> QED
      BY <2>1, <2>3, MainStep
  <1>4. ASSUME NEW kind \in {"text", "html"}, MainShow(kind) PROVE ViewInv'
    <2>1. GoodView(Shown(main, policy, kind), policy)
      BY <1>h, ShownGood DEF Kinds
    <2> QED
      BY <1>4, <2>1, MainOnlyStep DEF MainShow
  <1>5. CASE MainOnce
    BY <1>5, <1>h, HtmlGood, MainOnlyStep DEF MainOnce
  <1>6. CASE MainCompose
    <2>1. GoodView([main EXCEPT !.stack = "compose"], policy)
      BY <1>h DEF GoodView, HoldsHtml, View, Checked, Permitted
    <2> QED
      BY <1>6, <2>1, MainOnlyStep DEF MainCompose
  <1>7. CASE MainComposeClosed
    <2>1. CASE main.sel = NoMail
      <3> DEFINE w == [main EXCEPT !.stack = "text"]
      <3>1. HoldsHtml(w) /\ w.sel = NoMail
        BY <1>h, <2>1 DEF HoldsHtml, View
      <3>2. GoodView(Buttons(w, policy), policy)
        BY <1>h, <3>1, ButtonsGood DEF Permitted, Retained
      <3> QED
        BY <1>7, <2>1, <3>2, MainOnlyStep DEF MainComposeClosed
    <2>2. CASE main.sel # NoMail
      <3>1. main.sel \in Mail
        BY <1>h, <2>2 DEF View
      <3>2. GoodView(ShownPreferred(main, policy), policy)
        BY <1>h, <3>1, PreferredGood
      <3>3. MainOnly(main) \/ MainOnly(ShownPreferred(main, policy))
        BY <1>7, <2>2 DEF MainComposeClosed
      <3> QED
        BY <1>h, <3>2, <3>3, MainOnlyStep
    <2> QED
      BY <2>1, <2>2
  <1> QED
    BY <1>1, <1>2, <1>3, <1>4, <1>5, <1>6, <1>7, <1>8, <1>9

(* A new window, and a list of windows without some of them. *)
LEMMA NewWindowGood ==
  ASSUME ViewInv, NEW m \in Mail
  PROVE  GoodView(WindowPreferred(NewWindow(m), policy), policy)
  <1>1. Preferred(m, HasHtml(m)) \in Kinds
    <2>1. HasHtml(m) \in BOOLEAN
      BY DEF HasHtml
    <2> QED
      BY <2>1, PreferredKind DEF ViewInv
  <1>2. policy.remote \in BOOLEAN /\ Blank \in View
    BY DEF ViewInv, Policies, Blank, View, Kinds
  <1>3. NewWindow(m) \in View /\ NewWindow(m).sel = m /\ NewWindow(m).doc = NoMail
        /\ NewWindow(m).stack = "text"
    BY <1>1, <1>2 DEF NewWindow, Blank, View
  <1> QED
    BY <1>3, WindowPreferredGood DEF ViewInv, HoldsHtml

LEMMA OpenStep ==
  ASSUME ViewInv, NEW m \in Mail, OpenWindow(m)
  PROVE  ViewInv'
  <1>1. PICK n \in Evicted :
          windows' = Append(SubSeq(windows, n + 1, Len(windows)), WindowPreferred(NewWindow(m), policy))
    BY DEF OpenWindow
  <1> DEFINE v == WindowPreferred(NewWindow(m), policy)
             kept == SubSeq(windows, n + 1, Len(windows))
  <1>2. n \in 0..Len(windows) /\ n >= Len(windows) + 1 - WindowLimit /\ Len(windows) \in Nat
    BY DEF Evicted, ViewInv
  <1>3. v \in View /\ GoodView(v, policy)
    BY NewWindowGood DEF GoodView, HoldsHtml
  <1>4. kept \in Seq(View) /\ Len(kept) = Len(windows) - n
        /\ \A i \in 1..Len(kept) : kept[i] = windows[n + i] /\ n + i \in DOMAIN windows
    BY <1>2 DEF ViewInv
  <1>5. windows' \in Seq(View) /\ Len(windows') = Len(kept) + 1
        /\ \A i \in 1..Len(windows') : windows'[i] = IF i = Len(kept) + 1 THEN v ELSE kept[i]
    <2> HIDE DEF kept, v
    <2> QED
      BY <1>1, <1>3, <1>4 DEF kept, v
  <1>6. Len(windows') <= WindowLimit
    BY <1>2, <1>4, <1>5, ViewAssumption
  <1>7. \A i \in DOMAIN windows' : GoodView(windows'[i], policy)
    <2>0. DOMAIN windows' = 1..Len(windows')
      <3>1. windows' \in Seq(View)
        BY <1>5
      <3> QED
        BY <3>1
    <2> SUFFICES ASSUME NEW i \in 1..Len(windows') PROVE GoodView(windows'[i], policy)
      BY <2>0
    <2>1. CASE i = Len(kept) + 1
      BY <1>3, <1>5, <2>1
    <2>2. CASE i # Len(kept) + 1
      <3>1. i \in 1..Len(kept)
        BY <1>2, <1>4, <1>5, <2>2
      <3> QED
        BY <1>4, <1>5, <2>2, <3>1 DEF ViewInv
    <2> QED
      BY <2>1, <2>2
  <1> QED
    BY <1>5, <1>6, <1>7 DEF ViewInv, OpenWindow

LEMMA CloseStep ==
  ASSUME ViewInv, CloseWindow
  PROVE  ViewInv'
  <1>1. CASE \E i \in DOMAIN windows :
               windows' = SubSeq(windows, 1, i - 1) \o SubSeq(windows, i + 1, Len(windows))
    <2>1. PICK i \in DOMAIN windows :
            windows' = SubSeq(windows, 1, i - 1) \o SubSeq(windows, i + 1, Len(windows))
      BY <1>1
    <2> DEFINE a == SubSeq(windows, 1, i - 1)
               b == SubSeq(windows, i + 1, Len(windows))
    <2>2. windows \in Seq(View) /\ i \in 1..Len(windows) /\ Len(windows) \in Nat
      BY DEF ViewInv
    <2>3. a \in Seq(View) /\ Len(a) = i - 1 /\ \A j \in 1..(i - 1) : a[j] = windows[j]
      BY <2>2
    <2>4. b \in Seq(View) /\ Len(b) = Len(windows) - i /\ \A j \in 1..(Len(windows) - i) : b[j] = windows[i + j]
      BY <2>2
    <2>5. windows' \in Seq(View) /\ Len(windows') = Len(windows) - 1
          /\ \A j \in 1..Len(windows') : windows'[j] = IF j <= i - 1 THEN a[j] ELSE b[j - (i - 1)]
      <3>1. windows' = a \o b
        BY <2>1
      <3> HIDE DEF a, b
      <3>2. windows' \in Seq(View) /\ Len(windows') = Len(a) + Len(b)
            /\ \A j \in 1..Len(windows') : windows'[j] = IF j <= Len(a) THEN a[j] ELSE b[j - Len(a)]
        BY <3>1, <2>3, <2>4
      <3>3. Len(a) + Len(b) = Len(windows) - 1
        BY <2>2, <2>3, <2>4
      <3> QED
        BY <2>3, <3>2, <3>3
    <2>6. \A j \in 1..Len(windows') : windows'[j] = IF j < i THEN windows[j] ELSE windows[j + 1]
      <3> SUFFICES ASSUME NEW j \in 1..Len(windows')
                   PROVE  windows'[j] = IF j < i THEN windows[j] ELSE windows[j + 1]
        OBVIOUS
      <3>1. CASE j < i
        BY <2>2, <2>3, <2>5, <3>1
      <3>2. CASE j >= i
        <4>1. j - (i - 1) \in 1..(Len(windows) - i) /\ i + (j - (i - 1)) = j + 1
          BY <2>2, <2>5, <3>2
        <4>2. windows'[j] = b[j - (i - 1)]
          <5>1. ~(j <= i - 1)
            BY <2>2, <3>2
          <5> HIDE DEF a, b
          <5> QED
            BY <2>5, <5>1
        <4>3. b[j - (i - 1)] = windows[i + (j - (i - 1))]
          BY <2>4, <4>1
        <4> QED
          BY <2>2, <3>2, <4>1, <4>2, <4>3
      <3> QED
        BY <2>2, <2>5, <3>1, <3>2
    <2>7. \A j \in DOMAIN windows' : GoodView(windows'[j], policy)
      <3> SUFFICES ASSUME NEW j \in 1..Len(windows') PROVE GoodView(windows'[j], policy)
        BY <2>5
      <3>1. j \in DOMAIN windows /\ (j >= i => j + 1 \in DOMAIN windows)
        BY <2>2, <2>5
      <3> QED
        BY <2>2, <2>6, <3>1 DEF ViewInv
    <2> QED
      BY <2>2, <2>5, <2>7, ViewAssumption DEF ViewInv, CloseWindow
  <1>2. CASE windows' = <<>>
    BY <1>2, ViewAssumption DEF ViewInv, CloseWindow
  <1> QED
    BY <1>1, <1>2 DEF CloseWindow

LEMMA WindowSteps ==
  ASSUME ViewInv, NEW i \in DOMAIN windows,
         \/ \E m \in Mail : WindowSelect(i, m)
         \/ \E kind \in Kinds : WindowChoose(i, kind)
         \/ \E kind \in {"text", "html"} : WindowShow(i, kind)
         \/ WindowOnce(i)
  PROVE  ViewInv'
  <1>h. GoodView(windows[i], policy) /\ HoldsHtml(windows[i]) /\ windows[i] \in View
        /\ policy \in Policies /\ prefs \in Preferences
    BY DEF ViewInv, GoodView, HoldsHtml
  <1>a. ASSUME NEW v, GoodView(v, policy), NEW b \in BOOLEAN
        PROVE  GoodView([v EXCEPT !.asked = b], policy)
    BY <1>a DEF GoodView, HoldsHtml, View, Checked, Permitted, Retained
  <1>k. ASSUME NEW kind \in Kinds
        PROVE  GoodView([WindowShown(windows[i], policy, kind) EXCEPT !.asked = IF kind = "html" THEN FALSE ELSE @], policy)
    <2>1. GoodView(WindowShown(windows[i], policy, kind), policy)
      BY <1>h, WindowShownGood
    <2>2. WindowShown(windows[i], policy, kind).asked \in BOOLEAN
      BY <2>1 DEF GoodView, HoldsHtml, View
    <2> QED
      BY <2>1, <2>2, <1>a
  <1>1. ASSUME NEW m \in Mail, WindowSelect(i, m) PROVE ViewInv'
    <2> DEFINE v == [windows[i] EXCEPT !.sel = m, !.asked = FALSE]
    <2>1. HoldsHtml(v) /\ v.sel \in Mail
      BY <1>h DEF HoldsHtml, View
    <2> QED
      BY <1>h, <1>1, <2>1, WindowPreferredGood, WindowOnlyStep DEF WindowSelect
  <1>2. ASSUME NEW kind \in Kinds, WindowChoose(i, kind) PROVE ViewInv'
    <2>1. Renders(windows[i].sel, kind) => windows[i].sel \in Mail
      BY <1>h DEF Renders, View, NoMail
    <2>2. prefs' \in Preferences /\ choices' \in 0..MaxChoices
      BY <1>2, <2>1, RememberedTypes DEF WindowChoose, ViewInv
    <2> QED
      BY <1>2, <1>k, <2>2, WindowStep DEF WindowChoose
  <1>3. ASSUME NEW kind \in {"text", "html"}, WindowShow(i, kind) PROVE ViewInv'
    <2>1. kind \in Kinds
      BY DEF Kinds
    <2> QED
      BY <1>3, <1>k, <2>1, WindowOnlyStep DEF WindowShow
  <1>4. CASE WindowOnce(i)
    <2>1. GoodView(ShownHtml(windows[i], policy, TRUE), policy)
      BY <1>h, HtmlGood
    <2>2. GoodView([windows[i] EXCEPT !.asked = TRUE], policy)
      BY <1>h, <1>a
    <2>3. GoodView(Buttons(windows[i], policy), policy)
      BY <1>h, ButtonsGood DEF GoodView
    <2> QED
      BY <1>4, <2>1, <2>2, <2>3, WindowOnlyStep DEF WindowOnce
  <1> QED
    BY <1>1, <1>2, <1>3, <1>4

LEMMA ActivityStep ==
  ASSUME ViewInv, ActivityChanges
  PROVE  ViewInv'
  <1>1. policy \in Policies /\ GoodView(main, policy) /\ \A i \in DOMAIN windows : GoodView(windows[i], policy)
    BY DEF ViewInv
  <1>2. GoodView(main', policy)
    BY <1>1, ButtonsGood DEF ActivityChanges, GoodView
  <1>w. windows' = [i \in DOMAIN windows |-> windows'[i]]
        /\ \A i \in DOMAIN windows : windows'[i] \in {windows[i], Buttons(windows[i], policy)}
    BY DEF ActivityChanges
  <1>3. \A i \in DOMAIN windows : GoodView(windows'[i], policy)
    BY <1>1, <1>w, ButtonsGood DEF GoodView
  <1>v. \A i \in DOMAIN windows : windows'[i] \in View
    BY <1>3 DEF GoodView, HoldsHtml
  <1>4. windows' \in Seq(View) /\ Len(windows') = Len(windows) /\ DOMAIN windows' = DOMAIN windows
    BY <1>w, <1>v, MappedViews DEF ViewInv
  <1> QED
    BY <1>2, <1>3, <1>4 DEF ViewInv, ActivityChanges

LEMMA ViewInvariance == ViewSpec => []ViewInv
  <1>1. ASSUME ViewInv, [ViewNext]_viewVars PROVE ViewInv'
    <2>h. HoldsHtml(main) /\ \A i \in DOMAIN windows : HoldsHtml(windows[i])
      BY <1>1 DEF ViewInv, GoodView
    <2>1. CASE UNCHANGED viewVars
      BY <1>1, <2>1 DEF viewVars, ViewInv
    <2>2. CASE ActivityChanges
      BY <1>1, <2>2, ActivityStep
    <2>3. CASE MainToggle \/ MainSenderDefault
      BY <1>1, <2>3, <2>h, ToggleStep, SenderDefaultStep DEF MainToggle, MainSenderDefault
    <2>4. ASSUME NEW i \in DOMAIN windows, WindowToggle(i) \/ WindowSenderDefault(i) PROVE ViewInv'
      BY <1>1, <2>4, <2>h, ToggleStep, SenderDefaultStep DEF WindowToggle, WindowSenderDefault
    <2> QED
      BY <1>1, <2>1, <2>2, <2>3, <2>4, SetRemoteStep, MainSteps, OpenStep, CloseStep, WindowSteps DEF ViewNext
  <1> QED
    BY <1>1, ViewInitInv, PTL DEF ViewSpec

(***************************************************************************)
(* Type correctness of the views; there are never more windows than        *)
(* STANDALONE_MESSAGE_WINDOW_LIMIT.                                        *)
(***************************************************************************)
THEOREM ViewTypeCorrect == ViewSpec => []ViewTypeOK
  <1>1. ViewInv => ViewTypeOK
    BY DEF ViewInv, GoodView, HoldsHtml, Policies, Preferences, ViewTypeOK
  <1> QED
    BY <1>1, ViewInvariance, PTL

(***************************************************************************)
(* show_visual_html_with_image_policy, apply_sender_image_trust and the    *)
(* refreshes: for every set of messages and any number of windows, no view *)
(* loads the images of its message without a permission that stands.       *)
(***************************************************************************)
THEOREM ImagesNeedPermission == ViewSpec => []ImagesOnlyWhenPermitted
  <1>1. ASSUME ViewInv PROVE ImagesOnlyWhenPermitted
    BY <1>1 DEF ViewInv, GoodView, Permitted, ImagesOnlyWhenPermitted, Views, MayLoad
  <1> QED
    BY <1>1, ViewInvariance, PTL

(***************************************************************************)
(* update_message_buttons and update_message_action_buttons: no check box  *)
(* that can be pressed disagrees with the trusted senders, although a      *)
(* window turns back from a message without an HTML part before it looks   *)
(* at its own.                                                             *)
(***************************************************************************)
THEOREM CheckBoxesAgree == ViewSpec => []CheckShowsTrust
  <1>1. ASSUME ViewInv PROVE CheckShowsTrust
    BY <1>1 DEF ViewInv, GoodView, Checked, CheckShowsTrust, Views
  <1> QED
    BY <1>1, ViewInvariance, PTL
=============================================================================
