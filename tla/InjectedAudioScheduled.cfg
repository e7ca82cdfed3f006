SPECIFICATION Spec
CONSTANTS
  Router = router
  Scheduler = scheduler
  Handlers = {h1}
  NoEvent = none
  AllEvents <- ScheduledEvents
  Sources <- Listener
  Destinations <- MCDestinations
  QueueCap = 1
  MaxFrames = 2
  MaxMinute = 1
  MinutesPerDay = 2
PROPERTIES
  AnnouncedOnce
  OnePlaybackAtATime
