CONSTANTS
    c1 = c1
    r = r
    q = q
    a = a
    b = b
    Top = Top
    Requests = {1, 2}
    Courses = {c1}
    Categories = {r, q, a, b}
    Tree <- MCTree
    Home <- MCHome
    Asks <- MCAsks
    MaxChanges = 2
SPECIFICATION Spec
INVARIANTS CourseEntriesFollowTheRows NoLiveCourseIsHidden CategoryEntriesFollowTheTree
