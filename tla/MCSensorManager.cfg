\* Two channels of which one is heated, two clicks, one scalar sensor.
CONSTANTS
    Clicks <- MCClicks
    SampleOf <- MCSampleOf
    Channels <- MCChannels
    Heated <- MCHeated
    Scalars <- MCScalars
    Addresses <- MCAddresses
    Configured = 118
    Discover = TRUE
    Stale = 2
    Setups <- MCSetups
SPECIFICATION Spec
INVARIANTS SamplesSound FreshValues BackInTwo BiasKnown
PROPERTIES PresentIsDetected
