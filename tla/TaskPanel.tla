----------------------------- MODULE TaskPanel -----------------------------
(***************************************************************************)
(* Delegating a background task from the desktop app                       *)
(* (desktop-tasks/panel.js, electron-main/background-tasks.ts), and the    *)
(* part of the task service that answers it (createTask in                 *)
(* validation-cloud/task-store.ts).                                        *)
(*                                                                         *)
(* The panel keeps a state per service: the draft, the task selected, and  *)
(* the request that may not have been answered.  The request is saved      *)
(* before it is sent, so that the same content is sent again under the     *)
(* same id.  The current state is one variable of the page: whoever        *)
(* resumes after an await finds the one of the service the panel is        *)
(* connected to then.                                                      *)
(*                                                                         *)
(* A step is one JavaScript job, one write of a state, or one transaction  *)
(* of a service.  Left out: the details of a task, a panel that was never  *)
(* configured (its fields are disabled), and a second reload of the panel  *)
(* while one is under way.                                                 *)
(***************************************************************************)
EXTENDS Naturals, Sequences, FiniteSets

CONSTANTS Service,       \* the addresses of task services
          Content,       \* what a form may hold: goal, repository, criteria
          Submission,    \* submissions that may be under way at a time
          None,
          MaxRequests,   \* bound on request ids
          MaxSaves,      \* bound on saves that wait to be written
          MaxReloads,    \* bound on openings and changes of the connection
          MaxLosses,     \* bound on lost answers, failed writes and failed reads
          MaxRestarts    \* bound on restarts of the app

ASSUME PanelAssumption ==
    /\ {MaxRequests, MaxSaves, MaxReloads, MaxLosses, MaxRestarts} \subseteq Nat
    /\ None \notin Service \cup Content \cup Submission

VARIABLES
    connected,  \* the service the main process is configured for
    key,        \* stateKey and config.url of the page
    state,      \* state
    form,       \* the fields
    enabled,    \* the fields can be edited and submitted
    reload,     \* how far open, or the configuration, has come
    list,       \* the service whose tasks are listed
    sub,        \* the submissions
    saves,      \* saveQueue
    broken,     \* the last save failed: open() awaits it in vain
    disk,       \* what is persisted, by service
    late,       \* requests whose sender waits no more, by service
    tasks,      \* the tasks of each service, by request id
    used,       \* what the bounds count
    \* for the properties only
    minted,     \* the request ids made so far
    seen,       \* the ids whose acceptance the user was shown
    forgotten,  \* the ids given up for another content
    dropped,    \* the ids lost with a save or a read that failed
    mixed,      \* the panel was reloaded with a submission or a save under way
    stale       \* a task was chosen from the list of another service

counted == <<minted, seen, forgotten, dropped, mixed, stale>>
page == <<key, state, form, enabled, reload, list>>
vars == <<connected, page, sub, saves, broken, disk, late, tasks, used, counted>>

Id == 1..MaxRequests
Request == [id : Id, input : Content]
\* Of the task selected only the service that runs it.
Saved == [draft : Content \cup {None}, pending : Request \cup {None},
          selected : Service \cup {None}]
NoState == [draft |-> None, pending |-> None, selected |-> None]

NotReloading == [at |-> "no", opens |-> FALSE, awaits |-> 0]
Waiting(n) == [at |-> "wait", opens |-> TRUE, awaits |-> n]
Opening(a) == [at |-> a, opens |-> TRUE, awaits |-> 0]
Configuring(a) == [at |-> a, opens |-> FALSE, awaits |-> 0]

Idle == [at |-> "idle", input |-> None, id |-> 0, to |-> None]

TypeOK ==
    /\ connected \in Service \cup {None} /\ key \in Service \cup {None}
    /\ state \in Saved /\ disk \in [Service -> Saved]
    /\ form \in Content /\ {enabled, broken, mixed, stale} \subseteq BOOLEAN
    /\ list \in Service \cup {None} /\ (key = None => list = None)
    /\ reload \in {NotReloading, Configuring("config"), Configuring("state")}
                 \cup {Opening("config"), Opening("state")}
                 \cup {Waiting(n) : n \in 1..Len(saves)}
    /\ \A b \in Submission :
          /\ sub[b].at \in {"idle", "saving", "saved", "sent", "answered", "refused",
                           "keeping", "listing"}
          /\ sub[b].at \in {"saving", "keeping"} => \E i \in 1..Len(saves) : saves[i].by = b
    /\ \A i \in 1..Len(saves) : saves[i].value \in Saved /\ saves[i].key \in Service
    /\ \A s \in Service : /\ tasks[s] \cup late[s] \subseteq Request
                          /\ \A t, u \in tasks[s] : t.id = u.id => t = u
    /\ minted \in 0..MaxRequests
    /\ seen \cup forgotten \cup dropped \subseteq 1..minted

Init ==
    /\ connected = None /\ key = None
    /\ state = NoState /\ form \in Content /\ enabled = FALSE
    /\ reload = NotReloading /\ list = None
    /\ sub = [b \in Submission |-> Idle]
    /\ saves = <<>> /\ broken = FALSE
    /\ disk = [s \in Service |-> NoState]
    /\ late = [s \in Service |-> {}] /\ tasks = [s \in Service |-> {}]
    /\ used = [reloads |-> 0, losses |-> 0, restarts |-> 0]
    /\ minted = 0 /\ seen = {} /\ forgotten = {} /\ dropped = {}
    /\ mixed = FALSE /\ stale = FALSE

-----------------------------------------------------------------------------
(* Saving.                                                                 *)

\* save: the state and its key are taken now and written in turn.
Save(st, b) ==
    /\ Len(saves) < MaxSaves
    /\ saves' = Append(saves, [key |-> key, value |-> st, by |-> b])

Fails(b) == sub' = [sub EXCEPT ![b] = Idle] /\ enabled' = TRUE

\* The submission b whose save it was goes on; only when the save with its
\* answer is written is the user shown the acceptance.  When it fails nothing
\* is shown, and the page has forgotten the request.
Keeping(b) == b # None /\ sub[b].at = "keeping"
Resumes(b, ok) ==
    /\ IF b = None THEN UNCHANGED <<sub, enabled>>
       ELSE IF ~ok THEN Fails(b)
       ELSE /\ sub' = [sub EXCEPT ![b].at = IF Keeping(b) THEN "listing" ELSE "saved"]
            /\ UNCHANGED enabled
    /\ seen' = IF Keeping(b) /\ ok THEN seen \cup {sub[b].id} ELSE seen
    /\ dropped' = IF Keeping(b) /\ ~ok THEN dropped \cup {sub[b].id} ELSE dropped

\* open awaits the saves there were when it was called; after a last one that
\* failed it does not get further.
Opened(n, ok) ==
    IF n > 0 THEN Waiting(n) ELSE IF ok THEN Opening("config") ELSE NotReloading

\* The next save is over.
SaveEnds(ok) ==
    /\ saves # <<>>
    /\ Resumes(Head(saves).by, ok)
    /\ saves' = Tail(saves)
    /\ broken' = ~ok
    /\ reload' = IF reload.at = "wait" THEN Opened(reload.awaits - 1, ok) ELSE reload
    /\ UNCHANGED <<connected, key, state, form, list, late, tasks,
                   minted, forgotten, mixed, stale>>
SaveWritten ==
    /\ SaveEnds(TRUE)
    /\ disk' = [disk EXCEPT ![Head(saves).key] = Head(saves).value]
    /\ UNCHANGED used
SaveFails ==
    /\ SaveEnds(FALSE)
    /\ used.losses < MaxLosses
    /\ used' = [used EXCEPT !.losses = @ + 1]
    /\ UNCHANGED disk

-----------------------------------------------------------------------------
(* The form.                                                               *)

Edit(c) ==
    /\ enabled /\ form # c
    /\ form' = c
    /\ state' = [state EXCEPT !.draft = c]
    /\ Save(state', None)
    /\ mixed' = (mixed \/ reload.at = "state")
    /\ UNCHANGED <<connected, key, enabled, reload, list, sub, broken, disk, late, tasks,
                   used, minted, seen, forgotten, dropped, stale>>

\* A request id belongs to a content: another content takes a new one, and the
\* old one is given up.
GivenUp(p) == IF p = None \/ p.input = form THEN {} ELSE {p.id}
FreshRequest == [id |-> minted + 1, input |-> form]
RequestAfresh(p) == FreshRequest
RequestFor(p) == IF p # None /\ p.input = form THEN p ELSE FreshRequest
Submit(b) ==
    /\ enabled /\ key # None
    /\ sub[b].at = "idle"
    /\ enabled' = FALSE
    /\ LET p == RequestFor(state.pending) IN
       /\ p.id \in Id
       /\ state' = [state EXCEPT !.draft = form, !.pending = p]
       /\ minted' = IF p = FreshRequest THEN minted + 1 ELSE minted
       /\ forgotten' = forgotten \cup GivenUp(state.pending)
    /\ sub' = [sub EXCEPT ![b] = [Idle EXCEPT !.at = "saving", !.input = form]]
    /\ Save(state', b)
    /\ mixed' = (mixed \/ reload.at = "state")
    /\ UNCHANGED <<connected, key, form, reload, list, broken, disk, late, tasks, used,
                   seen, dropped, stale>>

-----------------------------------------------------------------------------
(* A submission.                                                           *)

\* The request goes out with the id that the state holds by now; the main
\* process refuses it when it is configured for another service.
SubmitUnsaved(b) == sub[b].at \in {"saving", "saved"}
SubmitSaved(b) == sub[b].at = "saved"
Send(b) ==
    /\ SubmitSaved(b)
    /\ IF state.pending = None \/ connected # key
       THEN Fails(b)
       ELSE /\ sub' = [sub EXCEPT ![b].at = "sent", ![b].id = state.pending.id, ![b].to = key]
            /\ UNCHANGED enabled
    /\ UNCHANGED <<connected, key, state, form, reload, list, saves, broken, disk, late,
                   tasks, used, counted>>

\* createTask: one task per request id, and an id is bound to its content.
Unbound(s, r) == FALSE
BoundElsewhere(s, r) == \E t \in tasks[s] : t.id = r.id /\ t # r
Created(s, r) ==
    tasks' = IF BoundElsewhere(s, r) THEN tasks ELSE [tasks EXCEPT ![s] = @ \cup {r}]
Sent(b) == [id |-> sub[b].id, input |-> sub[b].input]
CreateTask(b) ==
    /\ sub[b].at = "sent"
    /\ sub' = [sub EXCEPT ![b].at =
                 IF BoundElsewhere(sub[b].to, Sent(b)) THEN "refused" ELSE "answered"]
    /\ Created(sub[b].to, Sent(b))
    /\ UNCHANGED <<connected, page, saves, broken, disk, late, used, counted>>

\* The submission waits no more (15 s), or its answer is lost: a request on its
\* way may still arrive.
AnswerLost(b) ==
    /\ sub[b].at \in {"sent", "answered"}
    /\ used.losses < MaxLosses
    /\ used' = [used EXCEPT !.losses = @ + 1]
    /\ late' = IF sub[b].at = "sent"
               THEN [late EXCEPT ![sub[b].to] = @ \cup {Sent(b)}] ELSE late
    /\ Fails(b)
    /\ UNCHANGED <<connected, key, state, form, reload, list, saves, broken, disk, tasks,
                   counted>>
ArrivesLate(s, r) ==
    /\ r \in late[s]
    /\ late' = [late EXCEPT ![s] = @ \ {r}]
    /\ Created(s, r)
    /\ UNCHANGED <<connected, page, sub, saves, broken, disk, used, counted>>

\* The answer: whatever the state is now, it selects the task and has nothing
\* pending any more.
Answer(b) ==
    /\ sub[b].at = "answered"
    /\ state' = [state EXCEPT !.selected = sub[b].to, !.pending = None]
    /\ Save(state', b)
    /\ sub' = [sub EXCEPT ![b].at = "keeping"]
    /\ UNCHANGED <<connected, key, form, enabled, reload, list, broken, disk, late, tasks,
                   used, counted>>

\* It was refused, or the refresh that follows an accepted one is over.
Ends(b) ==
    /\ sub[b].at \in {"refused", "listing"}
    /\ Fails(b)
    /\ UNCHANGED <<connected, key, state, form, reload, list, saves, broken, disk, late,
                   tasks, used, counted>>

-----------------------------------------------------------------------------
(* The list.                                                               *)

\* refresh lists the tasks of the page's service, unless the main process is
\* configured for another by now; they stay until the next one.
Refresh ==
    /\ key # None /\ connected = key
    /\ list # key
    /\ list' = key
    /\ UNCHANGED <<connected, key, state, form, enabled, reload, sub, saves, broken, disk,
                   late, tasks, used, counted>>

\* The click on a task of the list selects it in the current state.
Select ==
    /\ list # None /\ tasks[list] # {}
    /\ state' = [state EXCEPT !.selected = list]
    /\ Save(state', None)
    /\ mixed' = (mixed \/ reload.at = "state")
    /\ stale' = (stale \/ list # key)
    /\ UNCHANGED <<connected, key, form, enabled, reload, list, sub, broken, disk, late,
                   tasks, used, minted, seen, forgotten, dropped>>

-----------------------------------------------------------------------------
(* Opening the panel, connecting it, and restarts.                         *)

Reloads == /\ reload = NotReloading
           /\ used.reloads < MaxReloads
           /\ used' = [used EXCEPT !.reloads = @ + 1]

Open ==
    /\ Reloads
    /\ reload' = Opened(Len(saves), ~broken)
    /\ UNCHANGED <<connected, key, state, form, enabled, list, sub, saves, broken, disk,
                   late, tasks, counted>>

\* The connection form: the main process checks the service and remembers it.
Configure(s) ==
    /\ Reloads
    /\ connected' = s
    /\ reload' = Configuring("config")
    /\ UNCHANGED <<key, state, form, enabled, list, sub, saves, broken, disk, late, tasks,
                   counted>>

\* loadConfig: first the key changes, then the state that goes with it is read.
Unsettled == saves # <<>> \/ \E b \in Submission : sub[b].at # "idle"
LoadConfig ==
    /\ reload.at = "config"
    /\ mixed' = (mixed \/ Unsettled)
    /\ key' = connected
    /\ reload' = (IF connected = None THEN NotReloading ELSE [reload EXCEPT !.at = "state"])
    /\ UNCHANGED <<connected, state, form, enabled, list, sub, saves, broken, disk, late,
                   tasks, used, minted, seen, forgotten, dropped, stale>>

\* The draft fills the form; a goal handed over from the composer goes before it.
\* A state that cannot be read is taken to be empty.
PendingId(st) == IF st.pending = None THEN {} ELSE {st.pending.id}
LoadState(goal, ok) ==
    /\ reload.at = "state"
    /\ goal # None => reload.opens
    /\ mixed' = (mixed \/ Unsettled)
    /\ IF ok THEN UNCHANGED <<used, dropped>>
       ELSE /\ used.losses < MaxLosses
            /\ used' = [used EXCEPT !.losses = @ + 1]
            /\ dropped' = dropped \cup PendingId(disk[key])
    /\ LET read == IF ok THEN disk[key] ELSE NoState IN
       IF goal = None
       THEN /\ state' = read
            /\ form' = IF read.draft = None THEN form ELSE read.draft
            /\ UNCHANGED saves
       ELSE /\ state' = [read EXCEPT !.draft = goal]
            /\ form' = goal
            /\ Save(state', None)
    /\ enabled' = TRUE
    /\ reload' = NotReloading
    /\ UNCHANGED <<connected, key, list, sub, broken, disk, late, tasks,
                   minted, seen, forgotten, stale>>

\* The app is closed and opened; requests on their way may still arrive.
Underway(s) == {Sent(b) : b \in {c \in Submission : sub[c].at = "sent" /\ sub[c].to = s}}
Restart ==
    /\ used.restarts < MaxRestarts
    /\ used' = [used EXCEPT !.restarts = @ + 1]
    /\ key' = None /\ state' = NoState /\ enabled' = FALSE
    /\ form' \in Content
    /\ reload' = NotReloading /\ list' = None
    /\ late' = [s \in Service |-> late[s] \cup Underway(s)]
    /\ sub' = [b \in Submission |-> Idle]
    /\ saves' = <<>> /\ broken' = FALSE
    /\ UNCHANGED <<connected, disk, tasks, counted>>

-----------------------------------------------------------------------------
Next ==
    \/ SaveWritten \/ SaveFails
    \/ \E c \in Content : Edit(c)
    \/ \E b \in Submission :
          \/ Submit(b) \/ Send(b) \/ CreateTask(b)
          \/ AnswerLost(b) \/ Answer(b) \/ Ends(b)
    \/ \E s \in Service : Configure(s) \/ \E r \in late[s] : ArrivesLate(s, r)
    \/ Refresh \/ Select
    \/ Open \/ LoadConfig \/ Restart
    \/ \E goal \in Content \cup {None}, ok \in BOOLEAN : LoadState(goal, ok)

Spec == Init /\ [][Next]_vars

-----------------------------------------------------------------------------
(* Properties.                                                             *)

\* A task whose acceptance the user was not shown is the pending request of its
\* service on disk, so that the next try of its content finds it: through lost
\* and late requests, failed saves and restarts, as long as the panel is not
\* opened or connected again while a submission is under way (panel.js:131).
\* Two faults of the storage lose a request: the save after its answer fails
\* (panel.js:135), or the state cannot be read (panel.js:83).
UnseenIsPending ==
    ~mixed => \A s \in Service : \A t \in tasks[s] :
        t.id \notin seen \cup forgotten \cup dropped => disk[s].pending = t

\* A content is delegated to a service a second time only when the user was
\* shown that the first was accepted, its request had been given up for another
\* content, or one of the two faults above had lost it.
DelegatedOnce ==
    ~mixed => \A s \in Service : \A t, u \in tasks[s] :
        t.input = u.input /\ t.id < u.id => t.id \in seen \cup forgotten \cup dropped

\* docs/VBOT-BACKGROUND-TASKS.md:23: a retry of the same content uses the same
\* id again, so that no task is created twice.  Here without the two faults that
\* DelegatedOnce excepts.
RetryIsSafe ==
    ~mixed => \A s \in Service : \A t, u \in tasks[s] :
        t.input = u.input /\ t.id < u.id => t.id \in seen \cup forgotten

\* docs/VBOT-BACKGROUND-TASKS.md:23: drafts and selections are kept apart per
\* service.  The task selected for a service is one of its own.
SelectionIsLocal == \A s \in Service : disk[s].selected \in {None, s}
=============================================================================
