\* The path of a request, and what runs beside it, part by part.
INIT Init
NEXT Next
CHECK_DEADLOCK FALSE
INVARIANTS FindsBest StatusExact CtxFresh OneRightResponse HooksInOrder
           SegmentationFree HandledWellFormed AliasStable ResponseExact InputExact
           SavedSurvives DestroyedStaysGone HitFaithful RateBound
           NoForeignShutdown WireEndsOnce MessagesExact EventsArrive HealthExact
