SPECIFICATION Spec
CONSTANTS
    None = None
    p1 = p1
    q1 = q1
    r1 = r1
    c1 = c1
    d1 = d1
    e1 = e1
    f1 = f1
    i1 = i1
SYMMETRY Alike
PROPERTIES
    SubscriptionIsSound
    BindingsAreSound
    PushesAreSound
    PlansAreSound
    RoundsAreSound
    PublishingIsSound
    SnapshotsAreSound
    FeedIsSound
    ManageIsSound
    FeedbackIsSound
    ChannelIsSound
CHECK_DEADLOCK FALSE
