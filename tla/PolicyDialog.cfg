SPECIFICATION DialogSpec
CONSTANTS Policies={p,q} Calls={c1,c2} None=None MaxClicks=4
INVARIANT ButtonsOfShownPolicy
CHECK_DEADLOCK FALSE
