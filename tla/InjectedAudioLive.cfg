SPECIFICATION FairSpec
CONSTANTS
  Router = router
  Scheduler = scheduler
  Handlers = {h1}
  NoEvent = none
  AllEvents <- BeepEvents
  Sources <- MCSources
  Destinations <- MCDestinations
  QueueCap = 1
  MaxFrames = 2
  MaxMinute = 0
  MinutesPerDay = 2
INVARIANTS
  TypeOK
  OnePlayback
  NoStaleInjection
  OnTarget
  PlaybackInv
PROPERTIES
  PlaybackEnds
  RouterKeepsTicking
