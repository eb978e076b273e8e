----------------------------- MODULE MCPostCall -----------------------------
(***************************************************************************)
(* One run for the four modules of post-call work: AnalysisJobs, which this *)
(* module extends, and three instances.  They share the code of JobQueue   *)
(* and no variable, so that a behaviour of the model is a behaviour of one *)
(* of them, picked in the initial state, while the others stay in theirs:  *)
(* the states of the modules add up instead of multiplying.                *)
(***************************************************************************)
EXTENDS AnalysisJobs, TLC

VARIABLES part,
          cJob, cTries, cPc, cSends, cKnown, cNotes, cSynced, cStops,
          pAppt, pAsking, pJob, pTries, pCalendar, pAuto, pOccupied, pPublished, pStops,
          wRow, wTries, wSubscribed, wBatch, wSending, wGot, wStops

Crm == INSTANCE CrmSync WITH
  job <- cJob, tries <- cTries, pc <- cPc, sends <- cSends, known <- cKnown,
  notes <- cNotes, synced <- cSynced, stops <- cStops
Appointments == INSTANCE AppointmentSync WITH
  appt <- pAppt, asking <- pAsking, job <- pJob, tries <- pTries, calendar <- pCalendar, auto <- pAuto,
  occupied <- pOccupied, published <- pPublished, stops <- pStops
Webhooks == INSTANCE WebhookOutbox WITH
  row <- wRow, tries <- wTries, subscribed <- wSubscribed,
  batch <- wBatch, sending <- wSending, got <- wGot, stops <- wStops

cVars == <<cJob, cTries, cPc, cSends, cKnown, cNotes, cSynced, cStops>>
pVars == <<pAppt, pAsking, pJob, pTries, pCalendar, pAuto, pOccupied, pPublished, pStops>>
wVars == <<wRow, wTries, wSubscribed, wBatch, wSending, wGot, wStops>>
vars == <<part, analysisVars, cVars, pVars, wVars>>

MCInit ==
  /\ part \in {"analysis", "crm", "appointments", "webhooks"}
  /\ Init /\ Crm!Init /\ Appointments!Init /\ Webhooks!Init
  /\ part # "crm" => cKnown = {}
  /\ part # "appointments" => pCalendar = "open" /\ pAuto
  /\ part # "webhooks" => wSubscribed = {}

MCNext ==
  /\ UNCHANGED part
  /\ \/ part = "analysis" /\ Next /\ UNCHANGED <<cVars, pVars, wVars>>
     \/ part = "crm" /\ Crm!Next /\ UNCHANGED <<analysisVars, pVars, wVars>>
     \/ part = "appointments" /\ Appointments!Next /\ UNCHANGED <<analysisVars, cVars, wVars>>
     \/ part = "webhooks" /\ Webhooks!Next /\ UNCHANGED <<analysisVars, cVars, pVars>>

\* What a module is fair to is not enabled in its initial states.
MCSpec == /\ MCInit /\ [][MCNext]_vars
          /\ Fairness /\ Crm!Fairness /\ Appointments!Fairness /\ Webhooks!Fairness

\* The outside world agrees with the tables: a call announced as synced has its
\* note in the CRM; an appointment, its job and what was announced of it agree,
\* and a calendar never holds two that overlap; a delivery marked as delivered
\* was received, and duplicates have a cause.
TablesMatchOutside ==
  /\ TypeOK /\ Crm!TypeOK /\ Appointments!TypeOK /\ Webhooks!TypeOK
  /\ Crm!SyncedHasNote
  /\ Appointments!JobMatchesAppointment /\ Appointments!CalendarHoldsOne
  /\ Webhooks!DeliveredWasReceived

\* The tables of the CRM, the appointments and the webhooks keep the promises of
\* DurableJob, as the analysis does.
OthersAreDurable ==
  Crm!ImplementsDurable /\ Appointments!ImplementsDurable /\ Webhooks!ImplementsDurable

\* Everything comes to an end although the application stops: a job that was
\* created settles, an event is delivered or given up if the webhook stays on.
EverythingSettles ==
  JobSettles /\ Crm!JobSettles /\ Appointments!JobSettles /\ Webhooks!RowSettles
=============================================================================
