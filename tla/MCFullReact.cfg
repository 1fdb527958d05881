SPECIFICATION FairSpec
CONSTANTS
    Goals <- MCGoals
    Skill <- MCSkill
    EpisodeTurns = 8
    SubTurns = 4
    MaxState = 3
    MaxStack = 2
    MaxReplans = 2
    MaxPlan = 3
    Contacts = {"side_bar", "top_down"}
    Mechanism = "prismatic"
    Anytime = {TRUE, FALSE}
INVARIANTS
    OutageNeverSuccess
    NoGoalRepeated
    FailClosed
PROPERTIES
    EpisodeEnds
