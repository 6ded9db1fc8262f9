SPECIFICATION TransportSpec
CONSTANTS
    NumRetry = 2
    NoFrame = NoFrame
    PayloadSegments = 4
    MaxSegment = 8
    MaxInFlight = 2
    MaxKeepAlives = 1
    TpduModulus = 64
    RxCapacity = 4
PROPERTIES DeliversInOrder FragmentsIntactWhileClean SentMeansReceivedWhileClean
