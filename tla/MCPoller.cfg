\* More answers than maxPoll.
SPECIFICATION PollSpec
CONSTANTS
    Polls = {g1, g2, g3}
    MaxPoll = 3
    MaxAnswers = 5
    Prompt = TRUE
INVARIANTS PollTypeOK PollsDontOverlap
PROPERTY PollsGoOn
\* The main loop blocks in Update for good once it has had MaxPoll answers that nobody waits for.
CHECK_DEADLOCK FALSE
