---------------------------- MODULE BrowserSession ----------------------------
(*****************************************************************************)
(* The one browser session of BrowserService (browser.cpp). A call holds the *)
(* service's mutex from its first to its last step; what interleaves with it *)
(* is the page, which redirects and changes its controls by itself, the      *)
(* browser process, which may end, and time. The calls are numbered: a       *)
(* number names the session an open created, the navigation a call requested *)
(* and the observation it made. Documents are numbered like Chromium's       *)
(* loaders. The controls of a page are a link, whose address the page may    *)
(* change, and a button, which the page may move.                            *)
(*****************************************************************************)
EXTENDS Naturals, Sequences
CONSTANTS Principals, MaxCalls, MaxChanges
ASSUME BrowseConstants == MaxCalls \in Nat

VARIABLES session,   \* session; its id is 0 when there is none
          page,      \* the browser's document, the one about to commit, and the controls
          docs,      \* documents created
          call,      \* the call that holds the mutex
          n,         \* calls made
          told,      \* observations that reached their callers
          sent,      \* Page.navigate commands that took effect, per requested navigation
          used,      \* inputs dispatched, per observation
          changes    \* what the page did by itself

sessionVars == <<session, page, docs, call, n, told, sent, used, changes>>

Link(href) == [tag |-> "a", href |-> href, x |-> 2]
Button(x) == [tag |-> "button", href |-> 0, x |-> x]
NoLast == [id |-> 0, stable |-> FALSE, dom |-> 0, image |-> 0, html |-> 0, controls |-> <<>>]
NoSession == [id |-> 0]
Idle == [at |-> "idle"]

BrowseInit == /\ session = NoSession
              /\ page = [doc |-> 0, next |-> 0, controls |-> <<Link(1), Button(1)>>]
              /\ docs = 0 /\ call = Idle /\ n = 0 /\ told = {} /\ changes = 0
              /\ sent = [r \in 1..MaxCalls |-> 0] /\ used = [o \in 1..MaxCalls |-> 0]

\* expire_session: the lifetime, the idle allowance, and a browser that is gone.
Expired == session.id # 0 /\ session.life # "fresh"
Current == IF Expired THEN NoSession ELSE session

\* What navigate leaves of the session's page state, and the navigation it requests.
Requested(s) == [s EXCEPT !.pending = "navigation", !.request = n + 1, !.loader = 0,
                          !.observation = 0, !.last = NoLast, !.html = 0]

\* perform: the checks every action makes, and the first step of each.
At(p, op, at) == call' = [at |-> at, by |-> p, op |-> op, seen |-> NoLast, candidate |-> 0,
                          before |-> 0, after |-> 0, x |-> 0, named |-> 0]
Refused == call' = Idle /\ session' = Current
Named(p) == Current.id # 0 /\ Current.owner = p
Perform(p, op) ==
    /\ call = Idle /\ n < MaxCalls /\ n' = n + 1
    /\ \/ op = "status" /\ Refused
       \/ op = "open" /\ Current.id # 0 /\ Refused
       \/ op = "open" /\ Current.id = 0 /\ At(p, op, "launch") /\ session' = NoSession
       \/ op \notin {"status", "open"} /\ ~Named(p) /\ Refused
       \/ op = "close" /\ Named(p) /\ call' = Idle /\ session' = NoSession
       \/ op = "read_html" /\ Named(p) /\ call' = Idle /\ session' = Current
       \/ op = "observe" /\ Named(p) /\ session' = Current
          /\ At(p, op, CASE Current.pending = "navigation" -> "frame"
                         [] Current.pending = "document" -> "settle"
                         [] OTHER -> "before")
       \/ op = "navigate" /\ Named(p) /\ At(p, op, "frame") /\ session' = Requested(Current)
    /\ UNCHANGED <<page, docs, told, sent, used, changes>>
\* click, type and scroll name the observation they act on, and click a point.
Actionable(o) == /\ Current.pending = "no"
                 /\ Current.observation # 0 /\ o = Current.observation /\ Current.last.stable
Input(p, op, o, x) ==
    /\ call = Idle /\ n < MaxCalls /\ n' = n + 1
    /\ [by |-> p, id |-> o] \in told
    /\ IF Named(p) /\ Actionable(o)
       THEN /\ call' = [at |-> "check", by |-> p, op |-> op, seen |-> NoLast, candidate |-> 0,
                        before |-> 0, after |-> 0, x |-> x, named |-> o]
            /\ session' = Current
       ELSE Refused
    /\ UNCHANGED <<page, docs, told, sent, used, changes>>

\* open: the process and its endpoint, then the protocol, target and policies.
Launch == /\ call.at = "launch"
          /\ session' = [id |-> n, owner |-> call.by, pending |-> "no", request |-> 0, prev |-> 0,
                         loader |-> 0, observation |-> 0, last |-> NoLast, html |-> 0,
                         life |-> "fresh"]
          /\ call' = [call EXCEPT !.at = "connect"]
          /\ UNCHANGED <<page, docs, n, told, sent, used, changes>>
Connect == /\ call.at = "connect"
           /\ docs' = docs + 1
           /\ page' = [page EXCEPT !.doc = docs + 1, !.next = 0]
           /\ \E slow \in BOOLEAN :
                 /\ session' = [session EXCEPT !.pending = "navigation", !.request = n]
                 /\ call' = IF slow THEN Idle ELSE [call EXCEPT !.at = "frame"]
           /\ UNCHANGED <<n, told, sent, used, changes>>

\* continue_navigation: the phase is left before the command is issued.
Frame == /\ call.at = "frame"
         /\ session' = [session EXCEPT !.prev = page.doc, !.pending = "document"]
         /\ call' = [call EXCEPT !.at = "submit"]
         /\ UNCHANGED <<page, docs, n, told, sent, used, changes>>
\* Page.navigate acknowledged: a new document will commit, or the document stays.
Submit == /\ call.at = "submit"
          /\ \E fresh \in BOOLEAN :
                /\ docs' = IF fresh THEN docs + 1 ELSE docs
                /\ page' = IF fresh THEN [page EXCEPT !.next = docs + 1] ELSE page
                /\ session' = [session EXCEPT !.loader = IF fresh THEN docs + 1 ELSE 0]
          /\ sent' = [sent EXCEPT ![session.request] = @ + 1]
          /\ call' = [call EXCEPT !.at = "settle"]
          /\ UNCHANGED <<n, told, used, changes>>
\* errorText: the caller may retry; an open gives its session up.
AfterRejection == IF call.op = "open" THEN NoSession
                  ELSE [session EXCEPT !.pending = "navigation", !.loader = 0]
Rejected == /\ call.at = "submit"
            /\ session' = AfterRejection /\ call' = Idle
            /\ UNCHANGED <<page, docs, n, told, sent, used, changes>>

\* settle: two equal samples of a committed, loaded document; or the allowance ends.
Committed == session.loader = 0 \/ page.doc = session.loader \/ page.doc # session.prev
Sample == /\ call.at = "settle"
          /\ \E loading \in BOOLEAN :
                IF loading \/ ~Committed
                THEN call' = [call EXCEPT !.candidate = 0] /\ UNCHANGED session
                ELSE IF call.candidate # page.doc
                THEN call' = [call EXCEPT !.candidate = page.doc] /\ UNCHANGED session
                ELSE /\ session' = [session EXCEPT !.pending = "observation", !.loader = 0, !.prev = 0]
                     /\ call' = [call EXCEPT !.at = "before", !.candidate = 0]
          /\ UNCHANGED <<page, docs, n, told, sent, used, changes>>
\* pending_navigation: too little time is left; the session is kept and touched.
AllowanceEnds == /\ call.at = "settle" \/ (call.at = "before" /\ session.pending = "observation")
                 /\ call' = Idle
                 /\ UNCHANGED <<session, page, docs, n, told, sent, used, changes>>

\* observe: the frame, the DOM, the image, the frame and the viewport again.
Before == /\ call.at = "before"
          /\ call' = [call EXCEPT !.at = "dom", !.before = page.doc]
          /\ UNCHANGED <<session, page, docs, n, told, sent, used, changes>>
Dom == /\ call.at = "dom"
       /\ call' = [call EXCEPT !.at = "image", !.seen.dom = page.doc, !.seen.controls = page.controls]
       /\ UNCHANGED <<session, page, docs, n, told, sent, used, changes>>
Image == /\ call.at = "image"
         /\ call' = [call EXCEPT !.at = "after", !.seen.image = page.doc]
         /\ UNCHANGED <<session, page, docs, n, told, sent, used, changes>>
After == /\ call.at = "after"
         /\ call' = [call EXCEPT !.at = "view", !.after = page.doc]
         /\ UNCHANGED <<session, page, docs, n, told, sent, used, changes>>
\* The end of observe: the data becomes the session's last, and reaches the caller.
Observed(s, seen) ==
    /\ session' = [s EXCEPT !.last = seen, !.pending = "no"]
    /\ call' = Idle /\ told' = told \union {[by |-> call.by, id |-> n]}
View == /\ call.at = "view"
        /\ \E same, html \in BOOLEAN :
              LET seen == [call.seen EXCEPT !.id = n, !.stable = call.before = call.after /\ same]
                  s == [session EXCEPT !.observation = n]
              IN IF html
                 THEN /\ session' = s /\ UNCHANGED told
                      /\ call' = [call EXCEPT !.at = "html", !.seen = seen]
                 ELSE Observed(s, seen)
        /\ UNCHANGED <<page, docs, n, sent, used, changes>>
Html == /\ call.at = "html"
        /\ session' = [session EXCEPT !.html = page.doc]
        /\ call' = [call EXCEPT !.at = "htmlframe", !.seen.html = page.doc]
        /\ UNCHANGED <<page, docs, n, told, sent, used, changes>>
\* A mistaken form of StillStable: the document is not looked at again.
StillStableSeen == call.seen.stable
StillStable == call.seen.stable /\ page.doc = call.after
HtmlFrame == /\ call.at = "htmlframe"
             /\ Observed(session, [call.seen EXCEPT !.stable = StillStable])
             /\ UNCHANGED <<page, docs, n, sent, used, changes>>

\* browser_click_controls_match.
Contains(control, x) == control.x = x
OnlyHref(a, b) == a.tag = "a" /\ b.tag = "a" /\ [a EXCEPT !.href = b.href] = b
click_controls_match(old, new, x) ==
    \/ old = new
    \/ /\ Len(old) = Len(new)
       /\ \A i \in DOMAIN old :
             old[i] = new[i] \/ (OnlyHref(old[i], new[i]) /\ ~Contains(old[i], x) /\ ~Contains(new[i], x))
       /\ \E i \in DOMAIN old : old[i] = new[i] /\ Contains(old[i], x)
Stale(op, old, new, x) == CASE op = "click" -> ~click_controls_match(old, new, x)
                            [] op = "type" -> old # new
                            [] op = "scroll" -> FALSE
\* The page is read again; the address, the viewport or the controls may have changed.
Check == /\ call.at = "check"
         /\ \E moved \in BOOLEAN :
               IF moved \/ Stale(call.op, session.last.controls, page.controls, call.x)
               THEN call' = Idle /\ UNCHANGED session
               ELSE /\ session' = [session EXCEPT !.observation = 0]
                    /\ call' = [call EXCEPT !.at = "dispatch", !.seen = [session.last EXCEPT !.controls = page.controls]]
         /\ UNCHANGED <<page, docs, n, told, sent, used, changes>>
Dispatch == /\ call.at = "dispatch"
            /\ used' = [used EXCEPT ![call.named] = @ + 1]
            /\ call' = [call EXCEPT !.at = "before", !.seen = NoLast]
            /\ UNCHANGED <<session, page, docs, n, told, sent, changes>>

\* A step throws: cancelled, late, refused by the browser or disconnected.  An open and an
\* unconfirmed navigation give the session up; the command may have taken effect.
GivesUp == call.op = "open" \/ call.at = "submit"
Throws == /\ call.at # "idle"
          /\ \E gone, effect \in BOOLEAN :
                /\ session' = IF session.id = 0 \/ GivesUp THEN NoSession
                              ELSE [session EXCEPT !.life = IF gone THEN "over" ELSE @]
                /\ sent' = IF call.at = "submit" /\ effect THEN [sent EXCEPT ![session.request] = @ + 1]
                           ELSE sent
                /\ used' = IF call.at = "dispatch" /\ effect THEN [used EXCEPT ![call.named] = @ + 1]
                           ELSE used
          /\ call' = Idle
          /\ UNCHANGED <<page, docs, n, told, changes>>

\* The page: a document commits, a script redirects, a control changes.
Commit == /\ page.next # 0
          /\ page' = [page EXCEPT !.doc = page.next, !.next = 0]
          /\ UNCHANGED <<session, docs, call, n, told, sent, used, changes>>
Redirect == /\ session.id # 0 /\ changes < MaxChanges
            /\ changes' = changes + 1 /\ docs' = docs + 1
            /\ page' = [page EXCEPT !.doc = docs + 1]
            /\ UNCHANGED <<session, call, n, told, sent, used>>
ControlsChange == /\ session.id # 0 /\ changes < MaxChanges /\ changes' = changes + 1
                  /\ \E c \in {<<Link(2), page.controls[2]>>, <<page.controls[1], Button(3)>>} :
                        c # page.controls /\ page' = [page EXCEPT !.controls = c]
                  /\ UNCHANGED <<session, docs, call, n, told, sent, used>>
\* Time, the browser process and the janitor, which tries the mutex.
SessionAges == /\ session.id # 0 /\ call = Idle /\ session.life = "fresh"
               /\ session' = [session EXCEPT !.life = "over"]
               /\ UNCHANGED <<page, docs, call, n, told, sent, used, changes>>
Janitor == /\ call = Idle /\ Expired
           /\ session' = NoSession
           /\ UNCHANGED <<page, docs, call, n, told, sent, used, changes>>

BrowseStep == \/ Launch \/ Connect \/ Frame \/ Submit \/ Rejected \/ Sample \/ Before \/ Dom
              \/ Image \/ After \/ View \/ Html \/ HtmlFrame \/ Check \/ Dispatch \/ Throws
BrowseNext == \/ \E p \in Principals : \/ \E op \in {"status", "open", "close", "read_html", "observe", "navigate"} : Perform(p, op)
                                       \/ \E op \in {"click", "type", "scroll"}, o \in 1..n, x \in 1..3 :
                                             (op = "click" \/ x = 1) /\ Input(p, op, o, x)
              \/ BrowseStep \/ AllowanceEnds \/ Commit \/ Redirect \/ ControlsChange \/ SessionAges \/ Janitor

BrowseSpec == BrowseInit /\ [][BrowseNext]_sessionVars

\* A requested navigation takes effect at most once, however often the caller observes
\* again to continue it.
NavigatedOnce == \A r \in 1..MaxCalls : sent[r] <= 1
\* An observation serves one input at most, also when what follows the input fails.
OneInputPerObservation == \A o \in 1..MaxCalls : used[o] <= 1
\* What an input is compared with is the observation its caller named; it was stable, and it
\* was made after the session's latest navigation was requested.
ActsOnNamedObservation ==
    call.at = "dispatch" => /\ session.last.id = call.named /\ session.last.stable
                            /\ session.last.id >= session.request
\* A click goes to a point at which the page has exactly the controls that were observed there.
ClickTargetKept ==
    call.at = "dispatch" /\ call.op = "click" =>
        LET There(controls) == {i \in DOMAIN controls : Contains(controls[i], call.x)}
        IN /\ There(session.last.controls) = There(call.seen.controls)
           /\ \A i \in There(call.seen.controls) : session.last.controls[i] = call.seen.controls[i]
\* The text, the image and the HTML of an observation reported stable are of one document.
StableIsOneDocument ==
    session.id # 0 /\ session.last.stable =>
        /\ session.last.dom = session.last.image
        /\ session.last.html \in {0, session.last.dom}
\* Calls on a browser session: a navigation is sent once, an observation allows one
\* input, the input goes to the document and the control the observation named, and an
\* observation called stable is of one document.
PageActsSound == /\ NavigatedOnce /\ OneInputPerObservation
                 /\ ActsOnNamedObservation /\ ClickTargetKept
                 /\ StableIsOneDocument
===============================================================================
