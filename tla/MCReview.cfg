SPECIFICATION MCSpec
CONSTANTS
    ax = ax
    bx = bx
    by = by
    px = px
    py = py
    p12 = p12
    p13 = p13
    p23 = p23
    t1 = t1
    t2 = t2
    t3 = t3
    Null = Null
    Blank = Blank
    Company = {1, 2, 3}
    Job = {ax, bx, by}
    Lister <- MCLister
    Posting <- MCPosting
    PairId = {p12, p13, p23}
    Suspected <- MCSuspected
    s1 = s1
    s2 = s2
    Rank <- MCRank
    Sitting = {s1, s2}
    Request = {w1}
    Text = {t1, t2, t3}
    MaxPosts = 1
INVARIANTS PairsWellFormed ShownIsCurrent NobodyStuck
PROPERTIES NotesSurvive StarsSurvive
CHECK_DEADLOCK FALSE
