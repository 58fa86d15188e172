-------------------------------- MODULE Mails --------------------------------
(***************************************************************************)
(* The mails about a completed transfer.  transaction_service queues the   *)
(* task send_transaction_notification, which sends a mail to the sender,   *)
(* stores a record of it, does the same for the receiver, and then tells   *)
(* the operator.  It is one sequence without a transaction, a retry or a   *)
(* check of what was sent before: a failure ends it where it is, and a     *)
(* transfer that is completed twice starts it twice.                       *)
(***************************************************************************)
EXTENDS Integers

CONSTANTS
    Runners,  \* worker processes of the queue
    MaxTasks  \* bound: times the task is queued for the transfer

ASSUME MailsAssumption == MaxTasks \in Nat

VARIABLES
    queued,    \* tasks in the queue
    begun,     \* tasks that were taken from it
    template,  \* the EmailTemplate transaction_completed is there
    run,       \* what each worker does next
    mailed,    \* mails that the mail server has accepted
    recorded   \* EmailRecord rows, all with the status "sent"

mailVars == <<queued, begun, template, run, mailed, recorded>>

Parties == {"sender", "receiver"}
Stages  == {"idle", "mail_sender", "record_sender", "mail_receiver",
            "record_receiver", "mail_operator"}

MailsTypeOK ==
    /\ queued \in Nat
    /\ begun \in Nat
    /\ template \in BOOLEAN
    /\ run \in [Runners -> Stages]
    /\ mailed \in [Parties \cup {"operator"} -> Nat]
    /\ recorded \in [Parties -> Nat]

\* No template comes with the code: an admin has to add it.
MailsInit ==
    /\ queued = 0
    /\ begun = 0
    /\ template = FALSE
    /\ run = [r \in Runners |-> "idle"]
    /\ mailed = [who \in Parties \cup {"operator"} |-> 0]
    /\ recorded = [who \in Parties |-> 0]

StageOf == [sender |-> "mail_sender", receiver |-> "mail_receiver",
            operator |-> "mail_operator"]

Turns(r, from, to) == run[r] = from /\ run' = [run EXCEPT ![r] = to]

-----------------------------------------------------------------------------
\* A run of the task of the transfer completes it.
QueueMails ==
    /\ queued + begun < MaxTasks
    /\ queued' = queued + 1
    /\ UNCHANGED <<begun, template, run, mailed, recorded>>

\* Redis is restarted without what was queued last.
LoseMails ==
    /\ queued > 0
    /\ queued' = queued - 1
    /\ UNCHANGED <<begun, template, run, mailed, recorded>>

TakeMails(r) ==
    /\ queued > 0
    /\ queued' = queued - 1
    /\ begun' = begun + 1
    /\ Turns(r, "idle", "mail_sender")
    /\ UNCHANGED <<template, mailed, recorded>>

\* Mutant of Accepted: fail_silently = True, and the mail may be refused.
AcceptedOrNot(who) == mailed' = mailed \/ mailed' = [mailed EXCEPT ![who] = @ + 1]

\* send_mail raises unless the server accepts the mail.
Accepted(who) == mailed' = [mailed EXCEPT ![who] = @ + 1]

\* send_email: the template, the mail, the record.
SendToSender(r) ==
    /\ template
    /\ Turns(r, "mail_sender", "record_sender")
    /\ Accepted("sender")
    /\ UNCHANGED <<queued, begun, template, recorded>>

RecordSender(r) ==
    /\ Turns(r, "record_sender", "mail_receiver")
    /\ recorded' = [recorded EXCEPT !["sender"] = @ + 1]
    /\ UNCHANGED <<queued, begun, template, mailed>>

SendToReceiver(r) ==
    /\ template
    /\ Turns(r, "mail_receiver", "record_receiver")
    /\ Accepted("receiver")
    /\ UNCHANGED <<queued, begun, template, recorded>>

RecordReceiver(r) ==
    /\ Turns(r, "record_receiver", "mail_operator")
    /\ recorded' = [recorded EXCEPT !["receiver"] = @ + 1]
    /\ UNCHANGED <<queued, begun, template, mailed>>

SendToOperator(r) ==
    /\ Turns(r, "mail_operator", "idle")
    /\ Accepted("operator")
    /\ UNCHANGED <<queued, begun, template, recorded>>

\* The template is missing, the mail server or the database refuses, or the
\* worker dies: the task is over, and nothing repeats it.
RunFails(r) ==
    /\ run[r] # "idle"
    /\ run' = [run EXCEPT ![r] = "idle"]
    /\ UNCHANGED <<queued, begun, template, mailed, recorded>>

\* The mail server has accepted the mail, and its answer is lost.
Unheard(r, who) ==
    /\ template \/ who = "operator"
    /\ Turns(r, StageOf[who], "idle")
    /\ mailed' = [mailed EXCEPT ![who] = @ + 1]
    /\ UNCHANGED <<queued, begun, template, recorded>>

\* The admin adds the template or deletes it; the records stay (SET_NULL).
EditTemplate ==
    /\ template' = ~template
    /\ UNCHANGED <<queued, begun, run, mailed, recorded>>

MailsNext ==
    \/ QueueMails
    \/ LoseMails
    \/ EditTemplate
    \/ \E r \in Runners :
          \/ TakeMails(r)
          \/ SendToSender(r)
          \/ RecordSender(r)
          \/ SendToReceiver(r)
          \/ RecordReceiver(r)
          \/ SendToOperator(r)
          \/ RunFails(r)
          \/ \E who \in DOMAIN mailed : Unheard(r, who)

MailsSpec == MailsInit /\ [][MailsNext]_mailVars

-----------------------------------------------------------------------------
(* Properties                                                                *)

\* Over all the runs for a transfer, whichever of them end in the middle or are
\* repeated, no record tells of a mail that was not accepted, the receiver is
\* not told more often than the sender, and the operator only of what was
\* recorded for both.
RecordsAreTrue ==
    /\ mailed["operator"] <= recorded["receiver"]
    /\ recorded["receiver"] <= mailed["receiver"]
    /\ mailed["receiver"] <= recorded["sender"]
    /\ recorded["sender"] <= mailed["sender"]
    /\ mailed["sender"] <= begun
=============================================================================
