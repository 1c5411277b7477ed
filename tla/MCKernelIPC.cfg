\* Three threads, two endpoints, a notification and a saved reply.
CONSTANTS
    Threads = {t1, t2, t3}
    Endpoints = {ep1, ep2}
    Notifications = {ntfn}
    Badges = {b1, b2}
    Saved = {slot}
    NULL = null
SPECIFICATION Spec
SYMMETRY Symmetric
INVARIANT QueuesSound
INVARIANT RepliesSound
INVARIANT BindingsSound
CHECK_DEADLOCK FALSE
