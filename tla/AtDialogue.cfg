\* Two jobs of either kind, two +GT lines, one fault; the queue of events has
\* room for one.
CONSTANTS
  QueueCap = 1
  MaxJobs = 2
  MaxUrcs = 2
  MaxBacklog = 1
  MaxFaults = 1
SPECIFICATION DialogueSpec
INVARIANTS InputIsClosed SentIsTrue RejectedIsNotSent UrcsAccounted
PROPERTIES AnswerIsOwn
CHECK_DEADLOCK FALSE
