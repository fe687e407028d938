CONSTANTS
    c1 = c1
    c2 = c2
    e1 = e1
    e2 = e2
    Courses = {c1, c2}
    Instances = {e1, e2}
    CourseOf <- MCCourseOf
    Requests = {r1, r2}
    MaxClock = 2
    MaxWrites = 3
SPECIFICATION Spec
SYMMETRY MCSymmetry
INVARIANTS
    NoPerpetualRefill
PROPERTIES
    HitIsExact
    HitKeepsEnrolments
CHECK_DEADLOCK FALSE
