-------------------------- MODULE AppointmentSync ---------------------------
(***************************************************************************)
(* Appointments made during calls and confirmed after them: the tool       *)
(* appointments_make (appointments/tools.ts), the rows of                  *)
(* appointments/store.ts, the jobs of appointments/post-call-sync.ts and   *)
(* the calendar of services/appointment-service.ts, which lives in memory  *)
(* and is made anew whenever the settings are saved.  All appointments of  *)
(* the model ask for overlapping times: others never meet in the calendar. *)
(***************************************************************************)
EXTENDS JobQueue, FiniteSets

VARIABLES appt,      \* appointments.status, "none" without a row
          asking,    \* requests to make the appointment that wait for the calendar
          job,       \* appointment_sync_jobs.status, "none" without a row
          tries,     \* appointment_sync_jobs.attempts
          calendar,  \* open, shut (outside business hours), or zoho, which always throws
          auto,      \* the setting autoConfirm
          occupied,  \* appointments in the calendar
          published, \* published[a]: events of the appointment sent to the bridge
          stops

appointmentVars == <<appt, asking, job, tries, calendar, auto, occupied, published, stops>>

Calendars == {"open", "shut", "zoho"}

Init == /\ appt = [a \in Items |-> "none"]
        /\ asking = [a \in Items |-> 0]
        /\ job = [a \in Items |-> "none"]
        /\ tries = [a \in Items |-> 0]
        /\ calendar \in Calendars
        /\ auto \in BOOLEAN
        /\ occupied = {}
        /\ published = [a \in Items |-> {}]
        /\ stops = 0

SetAppt(a, s) == appt' = [appt EXCEPT ![a] = s]
Publish(a, e) == published' = [published EXCEPT ![a] = @ \cup {e}]
Settings == <<calendar, auto>>

Available == calendar = "open" /\ occupied = {}

\* appointments_make: a row there is is the answer; else the calendar is asked,
\* and the calendar only, so that two callers may be noted for one time.
Make(a) == /\ appt[a] = "none" /\ Available /\ asking[a] < 2
           /\ asking' = [asking EXCEPT ![a] = @ + 1]
           /\ UNCHANGED <<appt, job, tries, calendar, auto, occupied, published, stops>>

Asked(a) == /\ asking[a] > 0 /\ asking' = [asking EXCEPT ![a] = @ - 1]
            /\ UNCHANGED <<job, tries, calendar, auto, occupied, published, stops>>
\* Mutant: no unique index keeps the appointment from being noted again.
Created_again(a) == Asked(a) /\ SetAppt(a, "tentative")
\* AppointmentStore.create: of two requests the second finds the row of the
\* first by the unique index, however far that has come.
Created(a) == Asked(a) /\ IF appt[a] = "none" THEN SetAppt(a, "tentative") ELSE UNCHANGED appt

\* The listener of call.ended, for the appointments A of the call that are tentative.
CallEnded(A) ==
  /\ A # {} /\ \A a \in A : appt[a] = "tentative"
  /\ \/ /\ ~auto
        /\ published' = [a \in Items |-> IF a \in A THEN published[a] \cup {"created"}
                                                    ELSE published[a]]
        /\ UNCHANGED job
     \/ /\ auto
        /\ job' = [a \in Items |-> IF a \in A THEN Enqueued(job[a]) ELSE job[a]]
        /\ UNCHANGED published
  /\ UNCHANGED <<appt, asking, tries, calendar, auto, occupied, stops>>

\* AppointmentService.save: a new calendar, with nothing in it.
Save == /\ calendar' \in Calendars /\ auto' \in BOOLEAN
        /\ occupied' = {}
        /\ UNCHANGED <<appt, asking, job, tries, published, stops>>

\* Mutant: jobs are taken whatever their status.
ProcessDue_AnyStatus(a) == /\ \A b \in Items : job[b] # "processing"
                           /\ job[a] # "none"
                           /\ job' = [job EXCEPT ![a] = "processing"]
                           /\ UNCHANGED <<appt, asking, tries, calendar, auto, occupied, published, stops>>

ProcessDue(a) == /\ \A b \in Items : job[b] # "processing"
                 /\ Due(job[a])
                 /\ job' = [job EXCEPT ![a] = "processing"]
                 /\ UNCHANGED <<appt, asking, tries, calendar, auto, occupied, published, stops>>

Ends(a, s) == /\ job[a] = "processing"
              /\ job' = [job EXCEPT ![a] = s]
              /\ tries' = [tries EXCEPT ![a] = @ + 1]

\* An earlier attempt was cut short after it had confirmed the appointment.
AlreadyConfirmed(a) ==
  /\ appt[a] = "confirmed"
  /\ Ends(a, "succeeded")
  /\ UNCHANGED <<appt, asking, calendar, auto, occupied, published, stops>>

CreateEvent(a) == /\ appt[a] # "confirmed" /\ Available
                  /\ SetAppt(a, "confirmed")

Confirms(a) ==
  /\ CreateEvent(a)
  /\ occupied' = occupied \cup {a}
  /\ Ends(a, "succeeded")
  /\ Publish(a, "confirmed")
  /\ UNCHANGED <<asking, calendar, auto, stops>>

\* createEvent throws: the time is taken, or there is no such calendar.
Refused(a) == /\ appt[a] # "confirmed" /\ ~Available
              /\ SetAppt(a, "failed")
              /\ Publish(a, "failed")

Refuses(a) == /\ Refused(a)
              /\ Ends(a, AfterFailure(tries[a]))
              /\ UNCHANGED <<asking, calendar, auto, occupied, stops>>

\* The application stops: rows and settings stay, the calendar is empty, and
\* whoever asked it has no answer.
Stopped == /\ stops < MaxStops
           /\ stops' = stops + 1
           /\ asking' = [a \in Items |-> 0]
           /\ occupied' = {}
           /\ UNCHANGED Settings

Restart == /\ Stopped
           /\ job' = [a \in Items |-> Resumed(job[a])]
           /\ UNCHANGED <<appt, tries, published>>

\* It may stop between the rows of the appointment and of the job, ...
StopBetweenRows(a) ==
  /\ job[a] = "processing"
  /\ Stopped
  /\ \/ CreateEvent(a) /\ UNCHANGED published
     \/ Refused(a)
  /\ job' = [job EXCEPT ![a] = "failed"]
  /\ UNCHANGED tries

\* ... and between the row of the job and the publication.
StopAfterSuccess(a) == Stopped /\ CreateEvent(a) /\ Ends(a, "succeeded") /\ UNCHANGED published

AppointmentStep(a) == AlreadyConfirmed(a) \/ Confirms(a) \/ Refuses(a)

Next == \/ \E A \in SUBSET Items : CallEnded(A)
        \/ \E a \in Items : \/ Make(a) \/ Created(a) \/ ProcessDue(a) \/ AppointmentStep(a)
                            \/ StopBetweenRows(a) \/ StopAfterSuccess(a)
        \/ Save \/ Restart

Spec == Init /\ [][Next]_appointmentVars

\* The scheduler ticks; a calendar answers within the turn of the event loop.
Fairness == /\ WF_appointmentVars(\E a \in Items : ProcessDue(a))
            /\ WF_appointmentVars(\E a \in Items : AppointmentStep(a))
-----------------------------------------------------------------------------
TypeOK == /\ asking \in [Items -> 0 .. 2]
          /\ appt \in [Items -> {"none", "tentative", "confirmed", "failed"}]
          /\ job \in [Items -> JobStatus]
          /\ tries \in [Items -> 0 .. MaxTries]
          /\ calendar \in Calendars
          /\ auto \in BOOLEAN
          /\ occupied \in SUBSET Items
          /\ published \in [Items -> SUBSET {"created", "confirmed", "failed"}]
          /\ stops \in 0 .. MaxStops

\* The appointment and its job agree, and so does what was announced: a job
\* that succeeded confirmed it, a job that is dead left it failed, whatever was
\* announced as confirmed is, and stays, confirmed, and an appointment nobody has
\* a job for is untouched.
JobMatchesAppointment ==
  \A a \in Items : /\ job[a] = "succeeded" => appt[a] = "confirmed"
                   /\ job[a] = "dead" => appt[a] = "failed"
                   /\ job[a] = "none" => appt[a] \in {"none", "tentative"}
                   /\ "confirmed" \in published[a] => appt[a] = "confirmed"

\* One calendar never holds two overlapping appointments, and holds none that
\* is not confirmed, although two may have been noted for one time.
CalendarHoldsOne ==
  /\ Cardinality(occupied) <= 1
  /\ \A a \in occupied : appt[a] = "confirmed"

Durable == INSTANCE DurableJob WITH
             Jobs <- Items, Limit <- MaxTries, stage <- [a \in Items |-> Stage(job[a])]

\* The rows of appointment_sync_jobs keep the promises of DurableJob.
ImplementsDurable == Durable!DSpec

\* A tentative appointment of a call that ended is confirmed, or given up after
\* the last attempt; nothing stays in appointment_sync_jobs for ever.
JobSettles == \A a \in Items : job[a] = "pending" ~> job[a] \in {"succeeded", "dead"}
=============================================================================
